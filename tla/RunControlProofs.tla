-------------------------- MODULE RunControlProofs --------------------------
(***************************************************************************)
(* Proofs about RunControl and RunHistory, for any clients and any number  *)
(* of requests, runs, keys, clusters, creates, restarts and drifts: type   *)
(* correctness, what a run leaves on disk, one writer per run, no lost     *)
(* manifest update and a gap-free journal unless the run's lock was raced  *)
(* for, and what the conflict check and the idempotency store are worth.   *)
(*                                                                         *)
(* The three about writing do not follow from one another step by step:    *)
(* what keeps two writers apart is the lock for the handlers under         *)
(* run_locks and, for create_run, which takes none, that no client can     *)
(* name the run yet.  Ownership says so; Serving and Naming are what it    *)
(* rests on.                                                               *)
(***************************************************************************)
EXTENDS RunHistory, TLAPS

OnRun == {"pause", "resume", "decide"}

(* Each request is where a handler of its kind can be, one for a run was   *)
(* sent to a run a client knew, and only a _journal or an update_run_state *)
(* call is ever half done.                                                 *)
Serving ==
    \A r \in Requests :
        /\ pc[r] \in (BuildLabels \ {"remember"}) \union {"list", "scan", "admit"}
              => call[r].op = "create"
        /\ pc[r] \in LockedLabels \union {"lock", "make", "wait"} => call[r].op \in OnRun
        /\ pc[r] \in {"look", "remember"} => call[r].op \in {"create", "decide"}
        /\ call[r].op \in OnRun => Run(r) \in known
        /\ mid[r] => pc[r] \in LogLabels \union UpdateLabels

(* Every id a client can name, or a cached reply names, is of a stored run. *)
Naming ==
    /\ \A n \in known : manifest[n] # Absent
    /\ \A route \in Runs \union {NoRun}, k \in Keys :
          cached[route][k].run \in known \union {NoRun}

(* A handler on a run holds the lock it waited for; a create works on a    *)
(* stored run no client can name, and no other create works on it.         *)
Ownership ==
    /\ \A r \in Requests : Holds(r) => lock[handle[r]] = r
    /\ \A r \in Requests : pc[r] = "wait" \/ Holds(r) => handle[r] \in Requests
    /\ \A r \in Requests : Builds(r) =>
          Run(r) \in Runs \ known /\ manifest[Run(r)] # Absent
    /\ \A q, r \in Requests : Builds(q) /\ Builds(r) /\ Run(q) = Run(r) => q = r

IInv == TypeOK /\ Serving /\ Naming /\ Ownership

(* The part of TypeOK that control depends on. *)
ThreadTypes ==
    /\ pc \in [Requests -> Labels] /\ mid \in [Requests -> BOOLEAN]
    /\ seen \in [Requests -> Manifests] /\ seq \in [Requests -> Nat]
    /\ call \in [Requests -> Calls] /\ known \in SUBSET Runs
    /\ manifest \in [Runs -> Manifests]
    /\ lock \in [Requests -> Requests \union {NoThread}]
    /\ handle \in [Requests -> Requests \union {NoThread}]
    /\ table \in [Runs -> Requests \union {NoThread}]

-----------------------------------------------------------------------------
(* The tables of RunControl. *)

(* Every label is in Labels, and no label is in two of the groups. *)
LEMMA LabelsKnown ==
    /\ BuildLabels \subseteq Labels /\ LockedLabels \subseteq Labels
    /\ LogLabels \subseteq BuildLabels \union LockedLabels
    /\ UpdateLabels \subseteq BuildLabels \union LockedLabels
    /\ BuildLabels \intersect LockedLabels = {}
    /\ LogLabels \intersect UpdateLabels = {}
BY DEF Labels, BuildLabels, LockedLabels, LogLabels, UpdateLabels

(* A _journal call writes a well-typed event and stays within its handler. *)
LEMMA LogsKnown ==
    \A l \in LogLabels :
        /\ Logs[l].stage \in Stages /\ Logs[l].outcome \in {"ok", "escalated"}
        /\ l \in BuildLabels => Logs[l].then \in BuildLabels
        /\ l \in LockedLabels => Logs[l].then \in LockedLabels
        /\ Logs[l].then # "remember" \/ l = "logSeal"
BY DEF LogLabels, Logs, Log, Stages, BuildLabels, LockedLabels

(* An update_run_state call sets a real state and stays within its handler. *)
LEMMA UpdatesKnown ==
    \A l \in UpdateLabels :
        /\ Updates[l].to \in States
        /\ Updates[l].to # "absent"
        /\ l \in BuildLabels => Updates[l].then \in BuildLabels \ {"remember"}
        /\ l \in LockedLabels => Updates[l].then \in LockedLabels
BY DEF UpdateLabels, Updates, Update, States, BuildLabels, LockedLabels

(* A thread at work on a run works on one of Runs. *)
LEMMA RunKnown ==
    ASSUME TypeOK, Serving, Ownership, NEW r \in Requests,
           pc[r] \in BuildLabels \union LockedLabels \union {"lock", "make", "wait"}
    PROVE  Run(r) \in Runs
<1>1. CASE call[r].op \in OnRun
  BY <1>1 DEF Serving, TypeOK
<1>2. CASE call[r].op = "create"
  BY <1>2 DEF Serving, Ownership, Builds, OnRun
<1> QED BY <1>1, <1>2 DEF Serving, OnRun, BuildLabels

(* The initial manifest, reply and call, and the error replies, are typed. *)
LEMMA ValuesTyped ==
    /\ Absent \in Manifests /\ NoReply \in Replies /\ NoCall \in Calls
    /\ \A status \in Statuses : Error(status) \in Replies
BY DEF Absent, Manifests, States, Hashes, NoReply, Replies, Statuses, NoCall, Calls, Error

(* A create that is given its run id is still a well-typed call. *)
LEMMA CallRetargeted ==
    ASSUME NEW c \in Calls, NEW n \in Runs PROVE [c EXCEPT !.run = n] \in Calls
BY DEF Calls

(* The reply of a handler that worked on a run is typed. *)
LEMMA AnswerTyped ==
    ASSUME TypeOK, NEW r \in Requests, Run(r) \in Runs, NEW status \in Statuses
    PROVE  Answer(r, status) \in Replies
BY DEF TypeOK, Answer, Replies, Manifests

-----------------------------------------------------------------------------
(* Types. *)

(* Sending a well-typed call keeps the types. *)
LEMMA TypeSend ==
    ASSUME TypeOK, NEW r \in Requests, NEW c \in Calls, Send(r, c)
    PROVE  TypeOK'
BY DEF TypeOK, Send, Go, Labels, disk, locks, memory, locals, bounds

(* So does leaving a handler with a well-typed reply, ... *)
LEMMA TypeFinish ==
    ASSUME TypeOK, NEW r \in Requests, NEW answer \in Replies,
           Finish(r, answer), UNCHANGED disk,
           table' \in [Runs -> Requests \union {NoThread}],
           lock' \in [Requests -> Requests \union {NoThread}],
           handle' \in [Requests -> Requests \union {NoThread}],
           cached' \in [Runs \union {NoRun} -> [Keys -> Replies]],
           known' \in SUBSET Runs
    PROVE  TypeOK'
BY ValuesTyped DEF TypeOK, Finish, Go, Labels, disk, bounds

(* ... and so does raising. *)
LEMMA TypeFail ==
    ASSUME TypeOK, NEW r \in Requests, NEW status \in Statuses, Fail(r, status)
    PROVE  TypeOK'
<1>1. Error(status) \in Replies
  BY ValuesTyped
<1>2. /\ lock' \in [Requests -> Requests \union {NoThread}]
      /\ handle' \in [Requests -> Requests \union {NoThread}]
  BY DEF TypeOK, Fail, Release
<1> QED BY <1>1, <1>2, TypeFinish DEF TypeOK, Fail

(* Every step keeps the types. *)
LEMMA TypeStep ==
    ASSUME TypeOK, Serving, Naming, Ownership, [Next]_vars
    PROVE  TypeOK'
<1> USE DEF Labels, BuildLabels, LockedLabels, Go, disk, locks, memory, locals, client, bounds
<1>1. ASSUME NEW r \in Requests, SendRequest(r) PROVE TypeOK'
  <2>1. CASE SendCreate(r)
    <3>1. PICK k \in Keys \union {NoKey} :
             Send(r, [NoCall EXCEPT !.op = "create", !.key = k])
      BY <2>1 DEF SendCreate
    <3>2. [NoCall EXCEPT !.op = "create", !.key = k] \in Calls
      BY DEF NoCall, Calls, TypeOK
    <3> QED BY <3>1, <3>2, TypeSend
  <2>2. CASE SendPauseOrResume(r)
    <3>1. PICK n \in known, op \in {"pause", "resume"} :
             Send(r, [NoCall EXCEPT !.op = op, !.run = n])
      BY <2>2 DEF SendPauseOrResume
    <3>2. [NoCall EXCEPT !.op = op, !.run = n] \in Calls
      BY DEF NoCall, Calls, TypeOK
    <3> QED BY <3>1, <3>2, TypeSend
  <2>3. CASE SendDecisions(r)
    <3>1. PICK n \in known, k \in Keys \union {NoKey}, complete \in BOOLEAN :
             Send(r, [op |-> "decide", run |-> n, key |-> k,
                      complete |-> complete])
      BY <2>3 DEF SendDecisions
    <3>2. [op |-> "decide", run |-> n, key |-> k,
           complete |-> complete] \in Calls
      BY DEF Calls, TypeOK
    <3> QED BY <3>1, <3>2, TypeSend
  <2> QED BY <1>1, <2>1, <2>2, <2>3 DEF SendRequest
<1>2. ASSUME NEW r \in Requests, CreateStep(r) PROVE TypeOK'
  <2>9. CASE ListRuns(r)  BY <2>9 DEF ListRuns, TypeOK
  <2>1. CASE Scan(r)
    <3>1. CASE \E n \in unread[r] : Finish(r, Error("409")) /\ UNCHANGED known
      BY <2>1, <3>1, TypeFinish, ValuesTyped DEF Scan, TypeOK, Statuses
    <3>2. CASE \E n \in unread[r] : ReadRun(r, n)
      BY <2>1, <3>2 DEF Scan, ReadRun, TypeOK
    <3>3. CASE Go(r, "admit") /\ UNCHANGED <<locals, client, bounds>>
      BY <2>1, <3>3 DEF Scan, TypeOK
    <3> QED BY <2>1, <3>1, <3>2, <3>3 DEF Scan
  <2>2. CASE Admit(r)
    <3>1. PICK n \in Runs :
             /\ call' = [call EXCEPT ![r].run = n]
             /\ manifest' = [manifest EXCEPT ![n] = [state |-> "CREATED", hash |-> "zero"]]
             /\ seen' = [seen EXCEPT ![r] = [state |-> "CREATED", hash |-> "zero"]]
      BY <2>2 DEF Admit
    <3>2. call' \in [Requests -> Calls]
      <4>1. [call[r] EXCEPT !.run = n] \in Calls
        BY CallRetargeted DEF TypeOK
      <4>2. call' = [call EXCEPT ![r] = [call[r] EXCEPT !.run = n]]
        BY <3>1
      <4> QED BY <4>1, <4>2 DEF TypeOK
    <3>3. manifest' \in [Runs -> Manifests] /\ seen' \in [Requests -> Manifests]
      BY <3>1 DEF TypeOK, Manifests, States, Hashes
    <3> QED BY <2>2, <3>2, <3>3 DEF Admit, TypeOK
  <2>3. CASE AssembleCorpus(r)  BY <2>3 DEF AssembleCorpus, TypeOK, WriteOutput, Outputs
  <2>4. CASE StartRunning(r)
    BY <2>4 DEF StartRunning, TypeOK, WriteManifest, Manifests, States, Hashes
  <2>5. CASE ParseAttributes(r)  BY <2>5 DEF ParseAttributes, TypeOK, WriteOutput, Outputs
  <2>6. CASE ClusterAttributes(r)
    BY <2>6 DEF ClusterAttributes, TypeOK, WriteOutput, Outputs
  <2>7. CASE SealTriage(r)  BY <2>7 DEF SealTriage, TypeOK, Manifests
  <2>8. CASE CreateFails(r)
    BY <2>8, TypeFinish, ValuesTyped DEF CreateFails, TypeOK, Statuses
  <2> QED BY <1>2, <2>1, <2>2, <2>3, <2>4, <2>5, <2>6, <2>7, <2>8, <2>9 DEF CreateStep
<1>3. ASSUME NEW r \in Requests, LockedStep(r) PROVE TypeOK'
  <2>1. CASE ResumeRun(r)  BY <2>1, RunKnown DEF ResumeRun, TypeOK
  <2>2. CASE LeaveLock(r)
    <3>1. /\ lock' \in [Requests -> Requests \union {NoThread}]
          /\ handle' \in [Requests -> Requests \union {NoThread}]
      BY <2>2 DEF LeaveLock, Release, TypeOK
    <3>2. CASE call[r].op = "decide"
      BY <2>2, <3>1, <3>2 DEF LeaveLock, TypeOK
    <3>3. CASE call[r].op # "decide"
      <4>1. Answer(r, "201") \in Replies
        BY <2>2, RunKnown, AnswerTyped DEF LeaveLock, Statuses
      <4> QED BY <2>2, <3>1, <3>3, <4>1, TypeFinish DEF LeaveLock, TypeOK
    <3> QED BY <3>2, <3>3
  <2>3. CASE NotSealed(r)  BY <2>3, TypeFail DEF NotSealed, Statuses
  <2>4. CASE CorpusDrift(r)  BY <2>4, TypeFail DEF CorpusDrift, Statuses
  <2>5. CASE CheckPasses(r)  BY <2>5, RunKnown DEF CheckPasses, TypeOK
  <2>6. CASE RecordDecisions(r)
    <3>1. [key |-> call[r].key, complete |-> call[r].complete] \in Batches
      BY DEF TypeOK, Calls, Batches
    <3>2. decisions' \in [Runs -> Seq(Batches)]
      <4> DEFINE batch == [key |-> call[r].key, complete |-> call[r].complete]
      <4>1. decisions' = [decisions EXCEPT ![Run(r)] = Append(decisions[Run(r)], batch)]
        BY <2>6 DEF RecordDecisions
      <4>2. decisions \in [Runs -> Seq(Batches)]
        BY DEF TypeOK
      <4>3. batch \in Batches
        BY <3>1
      <4> HIDE DEF batch
      <4>4. \A n \in Runs : Append(decisions[n], batch) \in Seq(Batches)
        BY <4>2, <4>3
      <4> QED BY <4>1, <4>2, <4>4
    <3> QED BY <2>6, <3>2 DEF RecordDecisions, TypeOK
  <2>7. CASE ResumeAfterCheckpoint(r)
    <3>1. CASE /\ seen' = [seen EXCEPT ![r] = manifest[Run(r)]]
               /\ Go(r, "exit")
               /\ UNCHANGED <<disk, memory, mid, seq, todo, made, unread, client, bounds>>
      <4>1. Run(r) \in Runs
        BY <2>7, RunKnown DEF ResumeAfterCheckpoint
      <4> QED BY <3>1, <4>1 DEF TypeOK
    <3>2. CASE Fail(r, "409")
      BY <3>2, TypeFail DEF Statuses
    <3>3. CASE /\ \/ Go(r, "logS5") /\ todo' = [todo EXCEPT ![r] = Clusters]
                  \/ Go(r, "logPark") /\ UNCHANGED todo
               /\ UNCHANGED <<disk, memory, mid, seen, seq, made, unread, client, bounds>>
      <4>1. pc' \in [Requests -> Labels]
        <5>1. pc' = [pc EXCEPT ![r] = "logS5"] \/ pc' = [pc EXCEPT ![r] = "logPark"]
          BY <3>3
        <5> QED BY <5>1 DEF TypeOK
      <4>2. todo' \in [Requests -> SUBSET Clusters]
        <5>1. todo' = [todo EXCEPT ![r] = Clusters] \/ todo' = todo
          BY <3>3
        <5> QED BY <5>1 DEF TypeOK
      <4> QED BY <3>3, <4>1, <4>2 DEF TypeOK
    <3> QED BY <2>7, <3>1, <3>2, <3>3 DEF ResumeAfterCheckpoint
  <2>8. CASE Synthesise(r)
    <3>1. PICK c \in todo[r] : /\ todo' = [todo EXCEPT ![r] = @ \ {c}]
                               /\ \/ made' = [made EXCEPT ![r] = @ \union {c}]
                                  \/ made' = made
      BY <2>8 DEF Synthesise
    <3>2. todo' \in [Requests -> SUBSET Clusters] /\ made' \in [Requests -> SUBSET Clusters]
      <4>1. c \in Clusters
        BY DEF TypeOK
      <4>2. \A q \in Requests : todo[q] \ {c} \subseteq Clusters
                                /\ made[q] \union {c} \subseteq Clusters
        BY <4>1 DEF TypeOK
      <4>3. /\ todo \in [Requests -> SUBSET Clusters]
            /\ made \in [Requests -> SUBSET Clusters]
        BY DEF TypeOK
      <4> QED BY <3>1, <4>2, <4>3
    <3>3. pc' \in [Requests -> Labels]
      BY <2>8 DEF Synthesise, TypeOK
    <3> QED BY <2>8, <3>2, <3>3 DEF Synthesise, TypeOK
  <2>9. CASE SynthesisFails(r)  BY <2>9, TypeFail DEF SynthesisFails, Statuses
  <2>10. CASE SynthesisEnds(r)  BY <2>10 DEF SynthesisEnds, TypeOK
  <2>11. CASE WriteCandidates(r)
    BY <2>11 DEF WriteCandidates, TypeOK, WriteOutput, Outputs
  <2> QED BY <1>3, <2>1, <2>2, <2>3, <2>4, <2>5, <2>6, <2>7, <2>8, <2>9, <2>10,
             <2>11 DEF LockedStep
<1>4. ASSUME NEW r \in Requests, SharedStep(r) PROVE TypeOK'
  <2>1. CASE Look(r)
    <3> DEFINE hit == IF call[r].key = NoKey THEN NoReply
                      ELSE cached[Route(r)][call[r].key]
    <3>1. CASE hit # NoReply
      <4>1. Route(r) \in Runs \union {NoRun}
        BY <2>1 DEF Look, Route, Serving, OnRun, TypeOK
      <4>2. hit \in Replies
        BY <4>1, ValuesTyped DEF TypeOK, Calls
      <4>3. known \union ({hit.run} \ {NoRun}) \in SUBSET Runs
        BY <4>2 DEF TypeOK, Replies
      <4> QED BY <2>1, <3>1, <4>2, <4>3, TypeFinish DEF Look, TypeOK
    <3>2. CASE hit = NoReply
      BY <2>1, <3>2 DEF Look, TypeOK
    <3> QED BY <3>1, <3>2
  <2>2. CASE Remember(r)
    <3> DEFINE answer == Answer(r, IF call[r].op = "create" THEN "201" ELSE "202")
    <3>1. Run(r) \in Runs
      BY <2>2, RunKnown DEF Remember
    <3>2. answer \in Replies
      BY <3>1, AnswerTyped DEF Statuses
    <3>3. cached' \in [Runs \union {NoRun} -> [Keys -> Replies]]
      <4> HIDE DEF answer
      <4>1. \/ cached' = [cached EXCEPT ![Route(r)][call[r].key] = answer]
            \/ cached' = cached
        BY <2>2 DEF Remember, answer
      <4>2. \A route \in Runs \union {NoRun} :
               [cached[route] EXCEPT ![call[r].key] = answer] \in [Keys -> Replies]
        BY <3>2 DEF TypeOK
      <4>3. cached \in [Runs \union {NoRun} -> [Keys -> Replies]]
        BY DEF TypeOK
      <4> QED BY <4>1, <4>2, <4>3
    <3> QED BY <2>2, <3>1, <3>2, <3>3, TypeFinish DEF Remember, TypeOK
  <2>3. CASE AcquireLock(r)  BY <2>3 DEF AcquireLock, TypeOK, Serving, OnRun
  <2>8. CASE GetLock(r)
    <3>1. Run(r) \in Runs
      BY <2>8, RunKnown DEF GetLock
    <3>2. /\ pc' \in [Requests -> Labels]
          /\ table' \in [Runs -> Requests \union {NoThread}]
          /\ handle' \in [Requests -> Requests \union {NoThread}]
      <4>1. \/ pc' = [pc EXCEPT ![r] = "wait"] \/ pc' = [pc EXCEPT ![r] = "make"]
        BY <2>8 DEF GetLock
      <4>2. table' = table
        BY <2>8 DEF GetLock
      <4>3. handle' = handle \/ handle' = [handle EXCEPT ![r] = table[Run(r)]]
        BY <2>8 DEF GetLock
      <4>4. pc' \in [Requests -> Labels]
        BY <4>1 DEF TypeOK
      <4>5. table' \in [Runs -> Requests \union {NoThread}]
        BY <3>1, <4>2 DEF TypeOK
      <4>6. handle' \in [Requests -> Requests \union {NoThread}]
        BY <3>1, <4>3 DEF TypeOK
      <4> QED BY <4>4, <4>5, <4>6
    <3>3. lock' = lock
      BY <2>8 DEF GetLock
    <3> QED BY <2>8, <3>2, <3>3 DEF GetLock, TypeOK
  <2>9. CASE MakeLock(r)  BY <2>9, RunKnown DEF MakeLock, TypeOK
  <2>4. CASE LogRead(r)  BY <2>4, RunKnown DEF LogRead, TypeOK, LogLabels
  <2>5. CASE LogAppend(r)
    <3> DEFINE event == [seq |-> seq[r], stage |-> Logs[pc[r]].stage,
                         outcome |-> Logs[pc[r]].outcome]
    <3>1. event \in JournalEvents
      BY <2>5, LogsKnown DEF TypeOK, LogAppend, JournalEvents
    <3>2. journal' \in [Runs -> Seq(JournalEvents)]
      <4> HIDE DEF event
      <4>1. journal' = [journal EXCEPT ![Run(r)] = Append(journal[Run(r)], event)]
        BY <2>5 DEF LogAppend, event
      <4>2. journal \in [Runs -> Seq(JournalEvents)]
        BY DEF TypeOK
      <4>3. \A n \in Runs : Append(journal[n], event) \in Seq(JournalEvents)
        BY <3>1, <4>2
      <4> QED BY <4>1, <4>2, <4>3
    <3>3. Logs[pc[r]].then \in Labels
      BY <2>5, LogsKnown, LabelsKnown DEF LogAppend
    <3>4. pc' \in [Requests -> Labels]
      BY <2>5, <3>3 DEF LogAppend, TypeOK
    <3>5. mid' \in [Requests -> BOOLEAN] /\ seq' \in [Requests -> Nat]
      BY <2>5 DEF LogAppend, TypeOK
    <3>6. UNCHANGED <<manifest, files, sealed, decisions, candidates, memory, seen,
                      todo, made, unread, client, bounds>>
      BY <2>5 DEF LogAppend
    <3> HIDE DEF event
    <3> QED BY <3>2, <3>4, <3>5, <3>6 DEF TypeOK
  <2>6. CASE UpdateRead(r)  BY <2>6, RunKnown DEF UpdateRead, UpdateLabels, TypeOK
  <2>7. CASE UpdateWrite(r)
    BY <2>7, UpdatesKnown, LabelsKnown DEF UpdateWrite, WriteManifest, Manifests, TypeOK
  <2> QED BY <1>4, <2>1, <2>2, <2>3, <2>4, <2>5, <2>6, <2>7, <2>8, <2>9
         DEF SharedStep
<1>5. ASSUME Restart PROVE TypeOK'
  BY <1>5, ValuesTyped, RunControlAssumption DEF Restart, TypeOK, Statuses
<1>6. ASSUME NEW n \in Runs, FindOrphan(n) PROVE TypeOK'
  BY <1>6 DEF FindOrphan, TypeOK
<1>7. ASSUME NEW n \in Runs, DriftCorpus(n) PROVE TypeOK'
  <2>1. manifest' \in [Runs -> Manifests]
    <3>1. manifest \in [Runs -> Manifests] /\ manifest[n] \in Manifests
      BY DEF TypeOK
    <3>2. [manifest[n] EXCEPT !.hash = "moved"] \in Manifests
      BY <3>1 DEF Manifests, Hashes
    <3> QED BY <1>7, <3>1, <3>2 DEF DriftCorpus
  <2> QED BY <1>7, <2>1 DEF DriftCorpus, TypeOK
<1>8. ASSUME UNCHANGED vars PROVE TypeOK'
  BY <1>8 DEF vars, TypeOK
<1> QED BY <1>1, <1>2, <1>3, <1>4, <1>5, <1>6, <1>7, <1>8
        DEF Next, Environment, Serve

-----------------------------------------------------------------------------
(* Who works on which run. *)

(* Every step keeps the requests where they belong. *)
LEMMA ServingStep ==
    ASSUME TypeOK, ThreadTypes, Serving, Naming, Ownership, [Next]_vars
    PROVE  Serving'
<1> USE DEF ThreadTypes, Serving, OnRun, BuildLabels, LockedLabels, LogLabels,
            UpdateLabels, Go, Run, disk, locks, memory, locals, client, bounds
<1>1. ASSUME NEW r \in Requests, SendRequest(r) PROVE Serving'
  <2>1. CASE SendCreate(r)  BY <2>1 DEF SendCreate, Send, NoCall, Calls
  <2>2. CASE SendPauseOrResume(r)  BY <2>2 DEF SendPauseOrResume, Send, NoCall, Calls
  <2>3. CASE SendDecisions(r)  BY <2>3 DEF SendDecisions, Send, NoCall, Calls
  <2> QED BY <1>1, <2>1, <2>2, <2>3 DEF SendRequest
<1>2. ASSUME NEW r \in Requests, CreateStep(r) PROVE Serving'
  <2>9. CASE ListRuns(r)  BY <2>9 DEF ListRuns
  <2>1. CASE Scan(r)  BY <2>1 DEF Scan, ReadRun, Finish
  <2>2. CASE Admit(r)  BY <2>2 DEF Admit, Calls
  <2>3. CASE AssembleCorpus(r)  BY <2>3 DEF AssembleCorpus, WriteOutput
  <2>4. CASE StartRunning(r)  BY <2>4 DEF StartRunning, WriteManifest
  <2>5. CASE ParseAttributes(r)  BY <2>5 DEF ParseAttributes, WriteOutput
  <2>6. CASE ClusterAttributes(r)  BY <2>6 DEF ClusterAttributes, WriteOutput
  <2>7. CASE SealTriage(r)  BY <2>7 DEF SealTriage
  <2>8. CASE CreateFails(r)  BY <2>8 DEF CreateFails, Finish
  <2> QED BY <1>2, <2>1, <2>2, <2>3, <2>4, <2>5, <2>6, <2>7, <2>8, <2>9 DEF CreateStep
<1>3. ASSUME NEW r \in Requests, LockedStep(r) PROVE Serving'
  <2>1. CASE ResumeRun(r)  BY <2>1 DEF ResumeRun
  <2>2. CASE LeaveLock(r)  BY <2>2 DEF LeaveLock, Finish, Release
  <2>3. CASE NotSealed(r)  BY <2>3 DEF NotSealed, Fail, Finish, Release
  <2>4. CASE CorpusDrift(r)  BY <2>4 DEF CorpusDrift, Fail, Finish, Release
  <2>5. CASE CheckPasses(r)  BY <2>5 DEF CheckPasses
  <2>6. CASE RecordDecisions(r)  BY <2>6 DEF RecordDecisions
  <2>7. CASE ResumeAfterCheckpoint(r)
    BY <2>7 DEF ResumeAfterCheckpoint, Fail, Finish, Release
  <2>8. CASE Synthesise(r)  BY <2>8 DEF Synthesise
  <2>9. CASE SynthesisFails(r)  BY <2>9 DEF SynthesisFails, Fail, Finish, Release
  <2>10. CASE SynthesisEnds(r)  BY <2>10 DEF SynthesisEnds
  <2>11. CASE WriteCandidates(r)  BY <2>11 DEF WriteCandidates, WriteOutput
  <2> QED BY <1>3, <2>1, <2>2, <2>3, <2>4, <2>5, <2>6, <2>7, <2>8, <2>9, <2>10,
             <2>11 DEF LockedStep
<1>4. ASSUME NEW r \in Requests, SharedStep(r) PROVE Serving'
  <2>1. CASE Look(r)  BY <2>1 DEF Look, Finish
  <2>2. CASE Remember(r)  BY <2>2 DEF Remember, Finish
  <2>3. CASE AcquireLock(r)  BY <2>3 DEF AcquireLock
  <2>8. CASE GetLock(r)  BY <2>8 DEF GetLock
  <2>9. CASE MakeLock(r)  BY <2>9 DEF MakeLock
  <2>4. CASE LogRead(r)  BY <2>4 DEF LogRead
  <2>5. CASE LogAppend(r)
    <3>1. /\ pc[r] \in LogLabels /\ pc' = [pc EXCEPT ![r] = Logs[pc[r]].then]
          /\ mid' = [mid EXCEPT ![r] = FALSE] /\ UNCHANGED <<call, known>>
      BY <2>5 DEF LogAppend
    <3>2. CASE pc[r] \in BuildLabels
      <4>1. Logs[pc[r]].then \in BuildLabels /\ call[r].op = "create"
        BY <3>1, <3>2, LogsKnown
      <4> QED BY <3>1, <4>1
    <3>3. CASE pc[r] \in LockedLabels
      <4>1. Logs[pc[r]].then \in LockedLabels /\ call[r].op \in OnRun
        BY <3>1, <3>3, LogsKnown
      <4> QED BY <3>1, <4>1
    <3> QED BY <3>1, <3>2, <3>3
  <2>6. CASE UpdateRead(r)  BY <2>6 DEF UpdateRead
  <2>7. CASE UpdateWrite(r)  BY <2>7, UpdatesKnown DEF UpdateWrite, WriteManifest
  <2> QED BY <1>4, <2>1, <2>2, <2>3, <2>4, <2>5, <2>6, <2>7, <2>8, <2>9
         DEF SharedStep
<1>5. ASSUME Restart PROVE Serving'
  BY <1>5 DEF Restart
<1>6. ASSUME NEW n \in Runs, FindOrphan(n) PROVE Serving'
  BY <1>6 DEF FindOrphan
<1>7. ASSUME NEW n \in Runs, DriftCorpus(n) PROVE Serving'
  BY <1>7 DEF DriftCorpus
<1>8. ASSUME UNCHANGED vars PROVE Serving'
  BY <1>8 DEF vars
<1> QED BY <1>1, <1>2, <1>3, <1>4, <1>5, <1>6, <1>7, <1>8
        DEF Next, Environment, Serve

(* A replayed reply names no run the clients did not know. *)
LEMMA LookLearnsNothing ==
    ASSUME TypeOK, Serving, Naming, NEW r \in Requests, Look(r)
    PROVE  known' = known
<1> DEFINE hit == IF call[r].key = NoKey THEN NoReply
                  ELSE cached[Route(r)][call[r].key]
<1>1. CASE hit # NoReply
  <2>1. Route(r) \in Runs \union {NoRun}
    BY <1>1 DEF Look, Route, Serving, OnRun, TypeOK
  <2>2. call[r].key \in Keys
    BY <1>1 DEF TypeOK, Calls
  <2>3. hit.run \in known \union {NoRun}
    BY <1>1, <2>1, <2>2 DEF Naming
  <2>4. known' = known \union ({hit.run} \ {NoRun})
    BY <1>1 DEF Look
  <2> HIDE DEF hit
  <2> QED BY <2>3, <2>4
<1>2. CASE hit = NoReply
  BY <1>2 DEF Look, client
<1> QED BY <1>1, <1>2

(* Every step keeps the names good: an id is learned with the reply to the
   create that made the run, or from the folder of a run nobody builds. *)
LEMMA NamingStep ==
    ASSUME TypeOK, ThreadTypes, Serving, Naming, Ownership, [Next]_vars
    PROVE  Naming'
<1> USE DEF ThreadTypes, Serving, Naming, OnRun, BuildLabels, LockedLabels, LogLabels,
            UpdateLabels, Go, Run, disk, locks, memory, locals, client, bounds
<1>1. ASSUME NEW r \in Requests, SendRequest(r) PROVE Naming'
  <2>1. CASE SendCreate(r)  BY <2>1 DEF SendCreate, Send, NoCall, Calls
  <2>2. CASE SendPauseOrResume(r)  BY <2>2 DEF SendPauseOrResume, Send, NoCall, Calls
  <2>3. CASE SendDecisions(r)  BY <2>3 DEF SendDecisions, Send, NoCall, Calls
  <2> QED BY <1>1, <2>1, <2>2, <2>3 DEF SendRequest
<1>2. ASSUME NEW r \in Requests, CreateStep(r) PROVE Naming'
  <2>9. CASE ListRuns(r)  BY <2>9 DEF ListRuns
  <2>1. CASE Scan(r)  BY <2>1 DEF Scan, ReadRun, Finish
  <2>2. CASE Admit(r)  BY <2>2 DEF Admit, Calls, Absent
  <2>3. CASE AssembleCorpus(r)  BY <2>3 DEF AssembleCorpus, WriteOutput
  <2>4. CASE StartRunning(r)  BY <2>4 DEF StartRunning, WriteManifest, Absent
  <2>5. CASE ParseAttributes(r)  BY <2>5 DEF ParseAttributes, WriteOutput
  <2>6. CASE ClusterAttributes(r)  BY <2>6 DEF ClusterAttributes, WriteOutput
  <2>7. CASE SealTriage(r)  BY <2>7 DEF SealTriage
  <2>8. CASE CreateFails(r)  BY <2>8 DEF CreateFails, Finish
  <2> QED BY <1>2, <2>1, <2>2, <2>3, <2>4, <2>5, <2>6, <2>7, <2>8, <2>9 DEF CreateStep
<1>3. ASSUME NEW r \in Requests, LockedStep(r) PROVE Naming'
  <2>1. CASE ResumeRun(r)  BY <2>1 DEF ResumeRun
  <2>2. CASE LeaveLock(r)  BY <2>2 DEF LeaveLock, Finish, Release
  <2>3. CASE NotSealed(r)  BY <2>3 DEF NotSealed, Fail, Finish, Release
  <2>4. CASE CorpusDrift(r)  BY <2>4 DEF CorpusDrift, Fail, Finish, Release
  <2>5. CASE CheckPasses(r)  BY <2>5 DEF CheckPasses
  <2>6. CASE RecordDecisions(r)  BY <2>6 DEF RecordDecisions
  <2>7. CASE ResumeAfterCheckpoint(r)
    BY <2>7 DEF ResumeAfterCheckpoint, Fail, Finish, Release
  <2>8. CASE Synthesise(r)  BY <2>8 DEF Synthesise
  <2>9. CASE SynthesisFails(r)  BY <2>9 DEF SynthesisFails, Fail, Finish, Release
  <2>10. CASE SynthesisEnds(r)  BY <2>10 DEF SynthesisEnds
  <2>11. CASE WriteCandidates(r)  BY <2>11 DEF WriteCandidates, WriteOutput
  <2> QED BY <1>3, <2>1, <2>2, <2>3, <2>4, <2>5, <2>6, <2>7, <2>8, <2>9, <2>10,
             <2>11 DEF LockedStep
<1>4. ASSUME NEW r \in Requests, SharedStep(r) PROVE Naming'
  <2>1. CASE Look(r)  BY <2>1, LookLearnsNothing DEF Look, Finish, Route, NoReply
  <2>2. CASE Remember(r)
    <3> DEFINE answer == Answer(r, IF call[r].op = "create" THEN "201" ELSE "202")
    <3>1. answer.run = Run(r) /\ known' = known \union {Run(r)}
      BY <2>2 DEF Remember, Answer
    <3>2. \A n \in known' : manifest'[n] # Absent
      BY <2>2, <3>1 DEF Remember, Ownership, Builds
    <3>3. \/ cached' = [cached EXCEPT ![Route(r)] =
                           [cached[Route(r)] EXCEPT ![call[r].key] = answer]]
          \/ cached' = cached
      BY <2>2 DEF Remember
    <3> HIDE DEF answer
    <3>4. \A route \in Runs \union {NoRun}, k \in Keys :
             cached'[route][k] = cached[route][k] \/ cached'[route][k] = answer
      <4>1. cached \in [Runs \union {NoRun} -> [Keys -> Replies]]
        BY DEF TypeOK
      <4> QED BY <3>3, <4>1
    <3> QED BY <3>1, <3>2, <3>4
  <2>3. CASE AcquireLock(r)  BY <2>3 DEF AcquireLock
  <2>8. CASE GetLock(r)  BY <2>8 DEF GetLock
  <2>9. CASE MakeLock(r)  BY <2>9 DEF MakeLock
  <2>4. CASE LogRead(r)  BY <2>4 DEF LogRead
  <2>5. CASE LogAppend(r)  BY <2>5, LogsKnown DEF LogAppend
  <2>6. CASE UpdateRead(r)  BY <2>6 DEF UpdateRead
  <2>7. CASE UpdateWrite(r)  BY <2>7, UpdatesKnown DEF UpdateWrite, WriteManifest, Absent
  <2> QED BY <1>4, <2>1, <2>2, <2>3, <2>4, <2>5, <2>6, <2>7, <2>8, <2>9
         DEF SharedStep
<1>5. ASSUME Restart PROVE Naming'
  BY <1>5 DEF Restart, NoReply
<1>6. ASSUME NEW n \in Runs, FindOrphan(n) PROVE Naming'
  BY <1>6 DEF FindOrphan
<1>7. ASSUME NEW n \in Runs, DriftCorpus(n) PROVE Naming'
  BY <1>7 DEF DriftCorpus, Absent
<1>8. ASSUME UNCHANGED vars PROVE Naming'
  BY <1>8 DEF vars
<1> QED BY <1>1, <1>2, <1>3, <1>4, <1>5, <1>6, <1>7, <1>8
        DEF Next, Environment, Serve

(* Every step keeps the owners apart. *)
LEMMA OwnershipStep ==
    ASSUME TypeOK, ThreadTypes, Serving, Naming, Ownership, [Next]_vars
    PROVE  Ownership'
<1> USE RunControlAssumption DEF ThreadTypes, Serving, Naming, Ownership, Builds, Holds,
            OnRun, BuildLabels, LockedLabels, LogLabels, UpdateLabels, Go, Run, disk,
            locks, memory, locals, client, bounds
<1>1. ASSUME NEW r \in Requests, SendRequest(r) PROVE Ownership'
  <2>1. CASE SendCreate(r)  BY <2>1 DEF SendCreate, Send, NoCall, Calls
  <2>2. CASE SendPauseOrResume(r)  BY <2>2 DEF SendPauseOrResume, Send, NoCall, Calls
  <2>3. CASE SendDecisions(r)  BY <2>3 DEF SendDecisions, Send, NoCall, Calls
  <2> QED BY <1>1, <2>1, <2>2, <2>3 DEF SendRequest
<1>2. ASSUME NEW r \in Requests, CreateStep(r) PROVE Ownership'
  <2>9. CASE ListRuns(r)  BY <2>9 DEF ListRuns
  <2>1. CASE Scan(r)  BY <2>1 DEF Scan, ReadRun, Finish
  <2>2. CASE Admit(r)  BY <2>2 DEF Admit, Calls, Absent
  <2>3. CASE AssembleCorpus(r)  BY <2>3 DEF AssembleCorpus, WriteOutput
  <2>4. CASE StartRunning(r)  BY <2>4 DEF StartRunning, WriteManifest, Absent
  <2>5. CASE ParseAttributes(r)  BY <2>5 DEF ParseAttributes, WriteOutput
  <2>6. CASE ClusterAttributes(r)  BY <2>6 DEF ClusterAttributes, WriteOutput
  <2>7. CASE SealTriage(r)  BY <2>7 DEF SealTriage
  <2>8. CASE CreateFails(r)  BY <2>8 DEF CreateFails, Finish
  <2> QED BY <1>2, <2>1, <2>2, <2>3, <2>4, <2>5, <2>6, <2>7, <2>8, <2>9 DEF CreateStep
<1>3. ASSUME NEW r \in Requests, LockedStep(r) PROVE Ownership'
  <2>1. CASE ResumeRun(r)  BY <2>1 DEF ResumeRun
  <2>2. CASE LeaveLock(r)  BY <2>2 DEF LeaveLock, Finish, Release
  <2>3. CASE NotSealed(r)  BY <2>3 DEF NotSealed, Fail, Finish, Release
  <2>4. CASE CorpusDrift(r)  BY <2>4 DEF CorpusDrift, Fail, Finish, Release
  <2>5. CASE CheckPasses(r)  BY <2>5 DEF CheckPasses
  <2>6. CASE RecordDecisions(r)  BY <2>6 DEF RecordDecisions
  <2>7. CASE ResumeAfterCheckpoint(r)
    BY <2>7 DEF ResumeAfterCheckpoint, Fail, Finish, Release
  <2>8. CASE Synthesise(r)  BY <2>8 DEF Synthesise
  <2>9. CASE SynthesisFails(r)  BY <2>9 DEF SynthesisFails, Fail, Finish, Release
  <2>10. CASE SynthesisEnds(r)  BY <2>10 DEF SynthesisEnds
  <2>11. CASE WriteCandidates(r)  BY <2>11 DEF WriteCandidates, WriteOutput
  <2> QED BY <1>3, <2>1, <2>2, <2>3, <2>4, <2>5, <2>6, <2>7, <2>8, <2>9, <2>10,
             <2>11 DEF LockedStep
<1>4. ASSUME NEW r \in Requests, SharedStep(r) PROVE Ownership'
  <2>1. CASE Look(r)
    <3>1. /\ \A q \in Requests : Builds(q)' => Builds(q)
          /\ \A q \in Requests : Holds(q)' => Holds(q)
          /\ \A q \in Requests : pc'[q] = "wait" => pc[q] = "wait"
      BY <2>1 DEF Look, Finish
    <3>2. UNCHANGED <<manifest, known, call, table, lock, handle>>
      BY <2>1, LookLearnsNothing DEF Look, Finish
    <3> QED BY <3>1, <3>2
  <2>2. CASE Remember(r)  BY <2>2 DEF Remember, Finish
  <2>3. CASE AcquireLock(r)  BY <2>3 DEF AcquireLock
  <2>8. CASE GetLock(r)  BY <2>8 DEF GetLock
  <2>9. CASE MakeLock(r)  BY <2>9 DEF MakeLock
  <2>4. CASE LogRead(r)  BY <2>4 DEF LogRead
  <2>5. CASE LogAppend(r)
    <3>1. /\ \A q \in Requests : Builds(q)' => Builds(q)
          /\ \A q \in Requests : Holds(q)' => Holds(q)
          /\ \A q \in Requests : pc'[q] = "wait" => pc[q] = "wait"
      <4>1. /\ pc[r] \in LogLabels /\ pc' = [pc EXCEPT ![r] = Logs[pc[r]].then]
            /\ call' = call
        BY <2>5 DEF LogAppend
      <4>2. CASE pc[r] \in BuildLabels
        <5>1. Logs[pc[r]].then \in BuildLabels
          BY <4>1, <4>2, LogsKnown
        <5> QED BY <4>1, <4>2, <5>1
      <4>3. CASE pc[r] \in LockedLabels
        <5>1. Logs[pc[r]].then \in LockedLabels
          BY <4>1, <4>3, LogsKnown
        <5> QED BY <4>1, <4>3, <5>1
      <4> QED BY <4>1, <4>2, <4>3
    <3>2. UNCHANGED <<manifest, known, call, table, lock, handle>>
      BY <2>5 DEF LogAppend
    <3> QED BY <3>1, <3>2
  <2>6. CASE UpdateRead(r)  BY <2>6 DEF UpdateRead
  <2>7. CASE UpdateWrite(r)  BY <2>7, UpdatesKnown DEF UpdateWrite, WriteManifest, Absent
  <2> QED BY <1>4, <2>1, <2>2, <2>3, <2>4, <2>5, <2>6, <2>7, <2>8, <2>9
         DEF SharedStep
<1>5. ASSUME Restart PROVE Ownership'
  BY <1>5 DEF Restart, InFlight
<1>6. ASSUME NEW n \in Runs, FindOrphan(n) PROVE Ownership'
  BY <1>6 DEF FindOrphan
<1>7. ASSUME NEW n \in Runs, DriftCorpus(n) PROVE Ownership'
  BY <1>7 DEF DriftCorpus, Absent
<1>8. ASSUME UNCHANGED vars PROVE Ownership'
  BY <1>8 DEF vars
<1> QED BY <1>1, <1>2, <1>3, <1>4, <1>5, <1>6, <1>7, <1>8
        DEF Next, Environment, Serve

(* What a run without a race for its lock is like.  A thread that makes the *)
(* lock finds none, and all who wait for it or hold it have the one made;   *)
(* hence one writer, whose half-done updates and events are current.        *)
Alone(n) ==
    \A q, r \in Requests :
        pc[q] = "make" /\ pc[r] = "make" /\ Run(q) = n /\ Run(r) = n => q = r
OneLock(n) ==
    \A r \in Requests : Run(r) = n =>
        /\ pc[r] = "make" => table[n] = NoThread
        /\ pc[r] = "wait" \/ Holds(r) => handle[r] = table[n]
OneWriter(n) ==
    \A q, r \in Requests :
        (Builds(q) \/ Holds(q)) /\ (Builds(r) \/ Holds(r)) /\ Run(q) = n /\ Run(r) = n
            => q = r
UpdatesCurrent(n) ==
    \A r \in Requests :
        pc[r] \in UpdateLabels /\ mid[r] /\ Run(r) = n => seen[r] = manifest[n]
SeqCurrent(n) ==
    \A r \in Requests :
        pc[r] \in LogLabels /\ mid[r] /\ Run(r) = n => seq[r] = Len(journal[n])
GapFree(n) == \A i \in DOMAIN journal[n] : journal[n][i].seq = i - 1
Numbering(n) == SeqCurrent(n) /\ GapFree(n)

(* Every step keeps the one lock of a run for which no two threads race. *)
LEMMA OneLockStep ==
    ASSUME TypeOK, ThreadTypes, Serving, Naming, Ownership, NEW n \in Runs,
           Alone(n), OneLock(n), [Next]_vars
    PROVE  OneLock(n)'
<1> USE RunControlAssumption DEF ThreadTypes, Serving, Naming, Ownership, Alone, OneLock, Builds,
            Holds, OnRun, BuildLabels, LockedLabels, LogLabels, UpdateLabels, Go, Run, disk,
            locks, memory, locals, client, bounds
<1>1. ASSUME NEW r \in Requests, SendRequest(r) PROVE OneLock(n)'
  <2>1. CASE SendCreate(r)  BY <2>1 DEF SendCreate, Send, NoCall, Calls
  <2>2. CASE SendPauseOrResume(r)  BY <2>2 DEF SendPauseOrResume, Send, NoCall, Calls
  <2>3. CASE SendDecisions(r)  BY <2>3 DEF SendDecisions, Send, NoCall, Calls
  <2> QED BY <1>1, <2>1, <2>2, <2>3 DEF SendRequest
<1>2. ASSUME NEW r \in Requests, CreateStep(r) PROVE OneLock(n)'
  <2>9. CASE ListRuns(r)  BY <2>9 DEF ListRuns
  <2>1. CASE Scan(r)  BY <2>1 DEF Scan, ReadRun, Finish
  <2>2. CASE Admit(r)  BY <2>2 DEF Admit, Calls, Absent
  <2>3. CASE AssembleCorpus(r)  BY <2>3 DEF AssembleCorpus, WriteOutput
  <2>4. CASE StartRunning(r)  BY <2>4 DEF StartRunning, WriteManifest, Absent
  <2>5. CASE ParseAttributes(r)  BY <2>5 DEF ParseAttributes, WriteOutput
  <2>6. CASE ClusterAttributes(r)  BY <2>6 DEF ClusterAttributes, WriteOutput
  <2>7. CASE SealTriage(r)  BY <2>7 DEF SealTriage
  <2>8. CASE CreateFails(r)  BY <2>8 DEF CreateFails, Finish
  <2> QED BY <1>2, <2>1, <2>2, <2>3, <2>4, <2>5, <2>6, <2>7, <2>8, <2>9 DEF CreateStep
<1>3. ASSUME NEW r \in Requests, LockedStep(r) PROVE OneLock(n)'
  <2>1. CASE ResumeRun(r)  BY <2>1 DEF ResumeRun
  <2>2. CASE LeaveLock(r)  BY <2>2 DEF LeaveLock, Finish, Release
  <2>3. CASE NotSealed(r)  BY <2>3 DEF NotSealed, Fail, Finish, Release
  <2>4. CASE CorpusDrift(r)  BY <2>4 DEF CorpusDrift, Fail, Finish, Release
  <2>5. CASE CheckPasses(r)  BY <2>5 DEF CheckPasses
  <2>6. CASE RecordDecisions(r)  BY <2>6 DEF RecordDecisions
  <2>7. CASE ResumeAfterCheckpoint(r)
    BY <2>7 DEF ResumeAfterCheckpoint, Fail, Finish, Release
  <2>8. CASE Synthesise(r)  BY <2>8 DEF Synthesise
  <2>9. CASE SynthesisFails(r)  BY <2>9 DEF SynthesisFails, Fail, Finish, Release
  <2>10. CASE SynthesisEnds(r)  BY <2>10 DEF SynthesisEnds
  <2>11. CASE WriteCandidates(r)  BY <2>11 DEF WriteCandidates, WriteOutput
  <2> QED BY <1>3, <2>1, <2>2, <2>3, <2>4, <2>5, <2>6, <2>7, <2>8, <2>9, <2>10,
             <2>11 DEF LockedStep
<1>4. ASSUME NEW r \in Requests, SharedStep(r) PROVE OneLock(n)'
  <2>1. CASE Look(r)  BY <2>1, LookLearnsNothing DEF Look, Finish
  <2>2. CASE Remember(r)  BY <2>2 DEF Remember, Finish
  <2>3. CASE AcquireLock(r)  BY <2>3 DEF AcquireLock
  <2>8. CASE GetLock(r)  BY <2>8 DEF GetLock
  <2>9. CASE MakeLock(r)  BY <2>9 DEF MakeLock
  <2>4. CASE LogRead(r)  BY <2>4 DEF LogRead
  <2>5. CASE LogAppend(r)  BY <2>5, LogsKnown, SMTT(30) DEF LogAppend
  <2>6. CASE UpdateRead(r)  BY <2>6 DEF UpdateRead
  <2>7. CASE UpdateWrite(r)  BY <2>7, UpdatesKnown DEF UpdateWrite, WriteManifest, Absent
  <2> QED BY <1>4, <2>1, <2>2, <2>3, <2>4, <2>5, <2>6, <2>7, <2>8, <2>9
         DEF SharedStep
<1>5. ASSUME Restart PROVE OneLock(n)'
  BY <1>5 DEF Restart, InFlight
<1>6. ASSUME NEW m \in Runs, FindOrphan(m) PROVE OneLock(n)'
  BY <1>6 DEF FindOrphan
<1>7. ASSUME NEW m \in Runs, DriftCorpus(m) PROVE OneLock(n)'
  BY <1>7 DEF DriftCorpus, Absent
<1>8. ASSUME UNCHANGED vars PROVE OneLock(n)'
  BY <1>8 DEF vars
<1> QED BY <1>1, <1>2, <1>3, <1>4, <1>5, <1>6, <1>7, <1>8
        DEF Next, Environment, Serve

(* With one lock for a run, Ownership is what OneWriter asks for. *)
LEMMA OneOwner ==
    ASSUME ThreadTypes, Serving, Ownership, NEW n \in Runs, OneLock(n)
    PROVE  OneWriter(n)
BY DEF OneWriter, ThreadTypes, Serving, Ownership, OneLock, Holds, Builds, OnRun, Run

OwnsAtUpdate ==
    \A r \in Requests :
        pc[r] \in LogLabels \union UpdateLabels \union {"running"}
            => Builds(r) \/ Holds(r)

(* A thread in a _journal or update_run_state call owns the run. *)
LEMMA UpdaterOwns ==
    ASSUME ThreadTypes, Serving PROVE OwnsAtUpdate
BY DEF OwnsAtUpdate, ThreadTypes, Serving, Holds, Builds, OnRun, LogLabels,
       UpdateLabels, BuildLabels, LockedLabels

-----------------------------------------------------------------------------
(* What one writer per run buys. *)

(* Every step keeps half-done manifest updates current: another writer of
   the manifest would be a second owner. *)
LEMMA UpdatesCurrentStep ==
    ASSUME TypeOK, ThreadTypes, Serving, Naming, Ownership, NEW n \in Runs,
           OneLock(n), UpdatesCurrent(n), [Next]_vars
    PROVE  UpdatesCurrent(n)'
<1> USE DEF ThreadTypes, UpdatesCurrent, Serving, BuildLabels, LockedLabels, LogLabels,
            UpdateLabels, Go, Run, disk, locks, memory, locals, client, bounds
<1>1. ASSUME NEW r \in Requests, SendRequest(r) PROVE UpdatesCurrent(n)'
  <2>1. CASE SendCreate(r)  BY <2>1 DEF SendCreate, Send, NoCall, Calls
  <2>2. CASE SendPauseOrResume(r)  BY <2>2 DEF SendPauseOrResume, Send, NoCall, Calls
  <2>3. CASE SendDecisions(r)  BY <2>3 DEF SendDecisions, Send, NoCall, Calls
  <2> QED BY <1>1, <2>1, <2>2, <2>3 DEF SendRequest
<1>2. ASSUME NEW r \in Requests, CreateStep(r) PROVE UpdatesCurrent(n)'
  <2>9. CASE ListRuns(r)  BY <2>9 DEF ListRuns
  <2>1. CASE Scan(r)  BY <2>1 DEF Scan, ReadRun, Finish
  <2>2. CASE Admit(r)
    BY <2>2, UpdaterOwns DEF Admit, OwnsAtUpdate, Absent, Naming, Ownership, Builds,
                             Holds, Serving, OnRun
  <2>3. CASE AssembleCorpus(r)  BY <2>3 DEF AssembleCorpus, WriteOutput
  <2>4. CASE StartRunning(r)
    BY <2>4, OneOwner, UpdaterOwns DEF StartRunning, WriteManifest, OneWriter,
                                       OwnsAtUpdate, Builds
  <2>5. CASE ParseAttributes(r)  BY <2>5 DEF ParseAttributes, WriteOutput
  <2>6. CASE ClusterAttributes(r)  BY <2>6 DEF ClusterAttributes, WriteOutput
  <2>7. CASE SealTriage(r)  BY <2>7 DEF SealTriage
  <2>8. CASE CreateFails(r)  BY <2>8 DEF CreateFails, Finish
  <2> QED BY <1>2, <2>1, <2>2, <2>3, <2>4, <2>5, <2>6, <2>7, <2>8, <2>9 DEF CreateStep
<1>3. ASSUME NEW r \in Requests, LockedStep(r) PROVE UpdatesCurrent(n)'
  <2>1. CASE ResumeRun(r)  BY <2>1 DEF ResumeRun
  <2>2. CASE LeaveLock(r)  BY <2>2 DEF LeaveLock, Finish, Release
  <2>3. CASE NotSealed(r)  BY <2>3 DEF NotSealed, Fail, Finish, Release
  <2>4. CASE CorpusDrift(r)  BY <2>4 DEF CorpusDrift, Fail, Finish, Release
  <2>5. CASE CheckPasses(r)  BY <2>5 DEF CheckPasses
  <2>6. CASE RecordDecisions(r)  BY <2>6 DEF RecordDecisions
  <2>7. CASE ResumeAfterCheckpoint(r)
    BY <2>7 DEF ResumeAfterCheckpoint, Fail, Finish, Release
  <2>8. CASE Synthesise(r)  BY <2>8 DEF Synthesise
  <2>9. CASE SynthesisFails(r)  BY <2>9 DEF SynthesisFails, Fail, Finish, Release
  <2>10. CASE SynthesisEnds(r)  BY <2>10 DEF SynthesisEnds
  <2>11. CASE WriteCandidates(r)  BY <2>11 DEF WriteCandidates, WriteOutput
  <2> QED BY <1>3, <2>1, <2>2, <2>3, <2>4, <2>5, <2>6, <2>7, <2>8, <2>9, <2>10,
             <2>11 DEF LockedStep
<1>4. ASSUME NEW r \in Requests, SharedStep(r) PROVE UpdatesCurrent(n)'
  <2>1. CASE Look(r)  BY <2>1 DEF Look, Finish
  <2>2. CASE Remember(r)  BY <2>2 DEF Remember, Finish
  <2>3. CASE AcquireLock(r)  BY <2>3 DEF AcquireLock
  <2>8. CASE GetLock(r)  BY <2>8 DEF GetLock
  <2>9. CASE MakeLock(r)  BY <2>9 DEF MakeLock
  <2>4. CASE LogRead(r)  BY <2>4 DEF LogRead
  <2>5. CASE LogAppend(r)  BY <2>5, LogsKnown DEF LogAppend, Logs, Log, Serving
  <2>6. CASE UpdateRead(r)  BY <2>6 DEF UpdateRead
  <2>7. CASE UpdateWrite(r)
    BY <2>7, OneOwner, UpdaterOwns, UpdatesKnown DEF UpdateWrite, WriteManifest,
                                                     OneWriter, OwnsAtUpdate,
                                                     Updates, Update
  <2> QED BY <1>4, <2>1, <2>2, <2>3, <2>4, <2>5, <2>6, <2>7, <2>8, <2>9
         DEF SharedStep
<1>5. ASSUME Restart PROVE UpdatesCurrent(n)'
  BY <1>5 DEF Restart
<1>6. ASSUME NEW m \in Runs, FindOrphan(m) PROVE UpdatesCurrent(n)'
  BY <1>6 DEF FindOrphan
<1>7. ASSUME NEW m \in Runs, DriftCorpus(m) PROVE UpdatesCurrent(n)'
  BY <1>7, UpdaterOwns DEF DriftCorpus, OwnsAtUpdate, Ownership, Builds, Holds
<1>8. ASSUME UNCHANGED vars PROVE UpdatesCurrent(n)'
  BY <1>8 DEF vars
<1> QED BY <1>1, <1>2, <1>3, <1>4, <1>5, <1>6, <1>7, <1>8
        DEF Next, Environment, Serve

(* Every step keeps the journal numbered, for the same reason. *)
LEMMA NumberingStep ==
    ASSUME TypeOK, ThreadTypes, Serving, Naming, Ownership, NEW n \in Runs,
           OneLock(n), Numbering(n), [Next]_vars
    PROVE  Numbering(n)'
<1> USE DEF ThreadTypes, Numbering, SeqCurrent, GapFree, Serving, BuildLabels,
            LockedLabels, LogLabels, UpdateLabels, Go, Run, disk, locks, memory, locals,
            client, bounds
<1>1. ASSUME NEW r \in Requests, SendRequest(r) PROVE Numbering(n)'
  <2>1. CASE SendCreate(r)  BY <2>1 DEF SendCreate, Send, NoCall, Calls
  <2>2. CASE SendPauseOrResume(r)  BY <2>2 DEF SendPauseOrResume, Send, NoCall, Calls
  <2>3. CASE SendDecisions(r)  BY <2>3 DEF SendDecisions, Send, NoCall, Calls
  <2> QED BY <1>1, <2>1, <2>2, <2>3 DEF SendRequest
<1>2. ASSUME NEW r \in Requests, CreateStep(r) PROVE Numbering(n)'
  <2>9. CASE ListRuns(r)  BY <2>9 DEF ListRuns
  <2>1. CASE Scan(r)  BY <2>1 DEF Scan, ReadRun, Finish
  <2>2. CASE Admit(r)
    BY <2>2, UpdaterOwns DEF Admit, OwnsAtUpdate, Absent, Naming, Ownership, Builds,
                             Holds, Serving, OnRun
  <2>3. CASE AssembleCorpus(r)  BY <2>3 DEF AssembleCorpus, WriteOutput
  <2>4. CASE StartRunning(r)  BY <2>4 DEF StartRunning, WriteManifest
  <2>5. CASE ParseAttributes(r)  BY <2>5 DEF ParseAttributes, WriteOutput
  <2>6. CASE ClusterAttributes(r)  BY <2>6 DEF ClusterAttributes, WriteOutput
  <2>7. CASE SealTriage(r)  BY <2>7 DEF SealTriage
  <2>8. CASE CreateFails(r)  BY <2>8 DEF CreateFails, Finish
  <2> QED BY <1>2, <2>1, <2>2, <2>3, <2>4, <2>5, <2>6, <2>7, <2>8, <2>9 DEF CreateStep
<1>3. ASSUME NEW r \in Requests, LockedStep(r) PROVE Numbering(n)'
  <2>1. CASE ResumeRun(r)  BY <2>1 DEF ResumeRun
  <2>2. CASE LeaveLock(r)
    <3>1. UNCHANGED <<journal, call>> /\ ~mid[r]
      BY <2>2 DEF LeaveLock, Finish
    <3>2. mid' = [mid EXCEPT ![r] = FALSE] \/ mid' = mid
      BY <2>2 DEF LeaveLock, Finish
    <3>3. \A q \in Requests \ {r} : mid'[q] = mid[q] /\ seq'[q] = seq[q] /\ pc'[q] = pc[q]
      BY <2>2 DEF LeaveLock, Finish
    <3> QED BY <3>1, <3>2, <3>3
  <2>3. CASE NotSealed(r)  BY <2>3 DEF NotSealed, Fail, Finish, Release
  <2>4. CASE CorpusDrift(r)  BY <2>4 DEF CorpusDrift, Fail, Finish, Release
  <2>5. CASE CheckPasses(r)  BY <2>5 DEF CheckPasses
  <2>6. CASE RecordDecisions(r)  BY <2>6 DEF RecordDecisions
  <2>7. CASE ResumeAfterCheckpoint(r)
    <3>1. UNCHANGED <<journal, call>>
      BY <2>7 DEF ResumeAfterCheckpoint, Fail, Finish
    <3>3. ~mid[r]
      BY <2>7 DEF ResumeAfterCheckpoint
    <3>4. mid' = [mid EXCEPT ![r] = FALSE] \/ mid' = mid
      BY <2>7 DEF ResumeAfterCheckpoint, Fail, Finish
    <3>2. \A q \in Requests \ {r} : mid'[q] = mid[q] /\ seq'[q] = seq[q] /\ pc'[q] = pc[q]
      BY <2>7 DEF ResumeAfterCheckpoint, Fail, Finish
    <3> QED BY <3>1, <3>2, <3>3, <3>4
  <2>8. CASE Synthesise(r)  BY <2>8 DEF Synthesise
  <2>9. CASE SynthesisFails(r)  BY <2>9 DEF SynthesisFails, Fail, Finish, Release
  <2>10. CASE SynthesisEnds(r)  BY <2>10 DEF SynthesisEnds
  <2>11. CASE WriteCandidates(r)  BY <2>11 DEF WriteCandidates, WriteOutput
  <2> QED BY <1>3, <2>1, <2>2, <2>3, <2>4, <2>5, <2>6, <2>7, <2>8, <2>9, <2>10,
             <2>11 DEF LockedStep
<1>4. ASSUME NEW r \in Requests, SharedStep(r) PROVE Numbering(n)'
  <2>1. CASE Look(r)
    <3>1. UNCHANGED <<journal, call>> /\ ~mid[r]
      BY <2>1 DEF Look, Finish
    <3>2. mid' = [mid EXCEPT ![r] = FALSE] \/ mid' = mid
      BY <2>1 DEF Look, Finish
    <3>3. \A q \in Requests \ {r} : mid'[q] = mid[q] /\ seq'[q] = seq[q] /\ pc'[q] = pc[q]
      BY <2>1 DEF Look, Finish
    <3> QED BY <3>1, <3>2, <3>3
  <2>2. CASE Remember(r)  BY <2>2 DEF Remember, Finish
  <2>3. CASE AcquireLock(r)  BY <2>3 DEF AcquireLock
  <2>8. CASE GetLock(r)  BY <2>8 DEF GetLock
  <2>9. CASE MakeLock(r)  BY <2>9 DEF MakeLock
  <2>4. CASE LogRead(r)  BY <2>4 DEF LogRead
  <2>5. CASE LogAppend(r)
    <3> DEFINE event == [seq |-> seq[r], stage |-> Logs[pc[r]].stage,
                         outcome |-> Logs[pc[r]].outcome]
    <3>1. Run(r) \in Runs /\ (Builds(r) \/ Holds(r))
      BY <2>5, RunKnown, UpdaterOwns DEF LogAppend, OwnsAtUpdate, Builds, Holds
    <3>2. journal \in [Runs -> Seq(JournalEvents)]
      BY DEF TypeOK
    <3>3. /\ journal' = [journal EXCEPT ![Run(r)] = Append(journal[Run(r)], event)]
          /\ event.seq = seq[r]
      BY <2>5 DEF LogAppend
    <3>4. /\ mid' = [mid EXCEPT ![r] = FALSE] /\ seq' = [seq EXCEPT ![r] = 0]
          /\ call' = call /\ \A q \in Requests \ {r} : pc'[q] = pc[q]
      BY <2>5 DEF LogAppend
    <3> HIDE DEF event
    <3>5. GapFree(n)'
      <4> SUFFICES ASSUME NEW i \in DOMAIN journal'[n]
                   PROVE  journal'[n][i].seq = i - 1
        BY DEF GapFree
      <4>1. CASE n = Run(r)
        <5>1. seq[r] = Len(journal[n])
          BY <2>5, <4>1 DEF LogAppend
        <5> QED BY <3>1, <3>2, <3>3, <4>1, <5>1
      <4>2. CASE n # Run(r)
        BY <3>2, <3>3, <4>2
      <4> QED BY <4>1, <4>2
    <3>6. SeqCurrent(n)'
      <4> SUFFICES ASSUME NEW q \in Requests, pc'[q] \in LogLabels, mid'[q], Run(q)' = n
                   PROVE  seq'[q] = Len(journal'[n])
        BY DEF SeqCurrent
      <4>1. q # r /\ mid[q] /\ pc[q] \in LogLabels /\ Run(q) = n
        BY <3>4
      <4>2. n # Run(r)
        BY <3>1, <4>1, OneOwner, UpdaterOwns DEF OneWriter, OwnsAtUpdate
      <4>3. journal'[n] = journal[n]
        BY <3>2, <3>3, <4>2
      <4> QED BY <3>4, <4>1, <4>3
    <3> QED BY <3>5, <3>6
  <2>6. CASE UpdateRead(r)  BY <2>6 DEF UpdateRead
  <2>7. CASE UpdateWrite(r)  BY <2>7 DEF UpdateWrite, WriteManifest
  <2> QED BY <1>4, <2>1, <2>2, <2>3, <2>4, <2>5, <2>6, <2>7, <2>8, <2>9
         DEF SharedStep
<1>5. ASSUME Restart PROVE Numbering(n)'
  BY <1>5 DEF Restart
<1>6. ASSUME NEW m \in Runs, FindOrphan(m) PROVE Numbering(n)'
  BY <1>6 DEF FindOrphan
<1>7. ASSUME NEW m \in Runs, DriftCorpus(m) PROVE Numbering(n)'
  BY <1>7 DEF DriftCorpus
<1>8. ASSUME UNCHANGED vars PROVE Numbering(n)'
  BY <1>8 DEF vars
<1> QED BY <1>1, <1>2, <1>3, <1>4, <1>5, <1>6, <1>7, <1>8
        DEF Next, Environment, Serve

-----------------------------------------------------------------------------
(* The theorems. *)

(* The invariant holds initially. *)
LEMMA IInvInit == Init => IInv
<1> SUFFICES ASSUME Init PROVE IInv
  OBVIOUS
<1>1. TypeOK
  BY ValuesTyped, RunControlAssumption DEF Init, TypeOK, Labels
<1>2. Serving
  BY DEF Init, Serving, OnRun, NoCall, BuildLabels, LockedLabels
<1>3. Naming
  BY DEF Init, Naming, NoReply
<1>4. Ownership
  BY DEF Init, Ownership, Holds, Builds, BuildLabels, LockedLabels
<1> QED BY <1>1, <1>2, <1>3, <1>4 DEF IInv

(* Every step preserves it. *)
LEMMA IInvStep == IInv /\ [Next]_vars => IInv'
<1> SUFFICES ASSUME IInv, [Next]_vars PROVE IInv'
  OBVIOUS
<1>1. ThreadTypes
  BY DEF IInv, TypeOK, ThreadTypes
<1>2. TypeOK'
  BY TypeStep DEF IInv
<1>3. Serving' /\ Naming' /\ Ownership'
  BY <1>1, ServingStep, NamingStep, OwnershipStep DEF IInv
<1> QED BY <1>2, <1>3 DEF IInv

(* So it always holds, of any clients, under any crashes and drifts. *)
THEOREM Invariance == Spec => []IInv
BY IInvInit, IInvStep, PTL DEF Spec

(* Type correctness. *)
THEOREM TypeCorrect == Spec => []TypeOK
<1>1. IInv => TypeOK
  BY DEF IInv
<1> QED BY <1>1, Invariance, PTL

-----------------------------------------------------------------------------
(* Until the lock of a run is raced for. *)

(* RunHistory remembers every race, and a run that has seen none is well   *)
(* kept.                                                                   *)
Unraced == \A n \in Runs \ raced : OneLock(n) /\ UpdatesCurrent(n) /\ Numbering(n)
WInv == Racing \subseteq raced /\ Unraced

(* It holds initially, ... *)
LEMMA WInvInit == HInit => IInv /\ WInv
<1> SUFFICES ASSUME HInit PROVE IInv /\ WInv
  OBVIOUS
<1>1. Init
  BY DEF HInit
<1>2. Racing = {}
  BY <1>1 DEF Init, Racing
<1>3. Unraced
  BY <1>1 DEF Init, Unraced, OneLock, Holds, LockedLabels, UpdatesCurrent, Numbering,
              SeqCurrent, GapFree
<1> QED BY <1>1, <1>2, <1>3, IInvInit DEF WInv

(* ... and every step keeps it: a run that is not raced for later was not  *)
(* raced for before.                                                       *)
LEMMA WInvStep == IInv /\ WInv /\ [HNext]_<<vars, history>> => IInv' /\ WInv'
<1> SUFFICES ASSUME IInv, WInv, [HNext]_<<vars, history>> PROVE IInv' /\ WInv'
  OBVIOUS
<1>1. [Next]_vars
  BY DEF HNext
<1>2. IInv'
  BY <1>1, IInvStep
<1>3. raced \subseteq raced' /\ Racing' \subseteq raced'
  <2>1. CASE HNext
    BY <2>1 DEF HNext, Remembers
  <2>2. CASE UNCHANGED <<vars, history>>
    <3>1. Racing' = Racing /\ raced' = raced
      BY <2>2 DEF vars, history, client, Racing, Run
    <3> QED BY <3>1 DEF WInv
  <2> QED BY <2>1, <2>2
<1>4. ASSUME NEW n \in Runs \ raced'
      PROVE  (OneLock(n) /\ UpdatesCurrent(n) /\ Numbering(n))'
  <2>1. n \in Runs \ raced /\ n \notin Racing
    BY <1>3, <1>4 DEF WInv
  <2>2. Alone(n)
    BY <2>1 DEF Alone, Racing
  <2>3. ThreadTypes
    BY DEF IInv, TypeOK, ThreadTypes
  <2> QED BY <1>1, <2>1, <2>2, <2>3, OneLockStep, UpdatesCurrentStep, NumberingStep
          DEF IInv, WInv, Unraced
<1> QED BY <1>2, <1>3, <1>4 DEF WInv, Unraced

(* ... so it always holds. *)
LEMMA RacesRemembered == HSpec => [](IInv /\ WInv)
BY WInvInit, WInvStep, PTL DEF HSpec

(* A run's folder has one writer at a time, although create_run takes no   *)
(* lock, as long as no two threads were making the run's lock at once: the *)
(* scope next_journal_seq and update_run_state rely on.                    *)
THEOREM WritersExcluded == HSpec => []SingleWriterUnlessRaced
<1>1. IInv /\ WInv => SingleWriterUnlessRaced
  <2> SUFFICES ASSUME IInv, WInv, NEW q \in Requests, NEW r \in Requests,
                      Builds(q) \/ Holds(q), Builds(r) \/ Holds(r),
                      Run(q) = Run(r), Run(q) \notin raced
               PROVE  q = r
    BY DEF SingleWriterUnlessRaced
  <2>1. Run(q) \in Runs
    BY RunKnown DEF IInv, Builds, Holds
  <2>2. OneWriter(Run(q))
    BY <2>1, OneOwner DEF IInv, WInv, Unraced, TypeOK, ThreadTypes
  <2> QED BY <2>2 DEF OneWriter
<1> QED BY <1>1, RacesRemembered, PTL

(* Then no update_run_state writes back an outdated manifest, ...          *)
THEOREM UpdatesKept == HSpec => []NoLostUpdate
<1>1. IInv /\ WInv => NoLostUpdate
  <2> SUFFICES ASSUME IInv, WInv, NEW r \in Requests, pc[r] \in UpdateLabels, mid[r],
                      Run(r) \notin raced
               PROVE  seen[r] = manifest[Run(r)]
    BY DEF NoLostUpdate
  <2>1. Run(r) \in Runs
    BY RunKnown, LabelsKnown DEF IInv
  <2> QED BY <2>1 DEF WInv, Unraced, UpdatesCurrent
<1> QED BY <1>1, RacesRemembered, PTL

(* ... and the journal of every run is numbered 0, 1, 2, ... without a gap.*)
THEOREM JournalNumbered == HSpec => []JournalGapFree
<1>1. IInv /\ WInv => JournalGapFree
  BY DEF JournalGapFree, WInv, Unraced, Numbering, GapFree
<1> QED BY <1>1, RacesRemembered, PTL

-----------------------------------------------------------------------------
(* What a run leaves on disk, whatever the clients do and whether or not a *)
(* run's lock can be made twice: only ratified runs are synthesised, the   *)
(* run store implements RunLifecycle, nothing is ratified on a moved       *)
(* corpus, an abandoned create stays inert, and the journal accounts for   *)
(* what is stored.                                                         *)
(*                                                                         *)
(* None of it follows from the files alone: each invariant says what is on *)
(* disk once a thread has come to a label.  No other thread can take it    *)
(* back, since files, seals, decisions and events only accumulate, and the *)
(* corpus hash of a run moves only while no handler is at work on it.      *)


(* Where create_run is, by what it has stored. *)
AfterS1 == BuildLabels \ {"S1", "remember"}
AfterS3 == {"logS3", "S4", "logS4", "seal", "await", "logSeal"}
AfterS4 == {"logS4", "seal", "await", "logSeal"}
Unsealed == {"S1", "running", "logS1", "S3", "logS3", "S4", "logS4", "seal"}
(* Where a submission is, by what it has found or stored.                  *)
Checked  == {"record", "advance", "logPark", "park", "logS5", "synth",
             "logTool", "logReject", "store", "logS6", "logS7", "ready"}
Ratified == Checked \ {"record", "advance"}
Stored   == {"logS6", "logS7", "ready"}
(* Where it may have candidates. *)
Making == {"synth", "logTool", "logReject", "store", "logS6", "logS7", "ready",
           "exit", "remember"}
(* Where a thread works on a run and its place or its memory says something.*)
Working  == (BuildLabels \ {"remember"}) \union Checked \union {"pause", "unpause"}

Complete(n) == \E i \in DOMAIN decisions[n] : decisions[n][i].complete

(* What the place of a thread says of the disk.  It writes back the corpus *)
(* hash that is stored; a submission past the drift check works on the     *)
(* sealed corpus; a resume is about to overwrite a pause or a resume.      *)
Evidence(r) ==
    /\ Builds(r) /\ pc[r] \in AfterS1 => "corpus" \in files[Run(r)]
    /\ Builds(r) /\ pc[r] \in AfterS3 => "attributes" \in files[Run(r)]
    /\ Builds(r) /\ pc[r] \in AfterS4 => "clusters" \in files[Run(r)]
    /\ Builds(r) /\ pc[r] \in Unsealed => sealed[Run(r)] = "none"
    /\ pc[r] \in Checked => sealed[Run(r)] # "none" /\ ~Drifted(Run(r))
    /\ pc[r] \in Ratified => Complete(Run(r))
    /\ pc[r] \in Stored => "candidates" \in files[Run(r)]
    /\ pc[r] \in UpdateLabels /\ mid[r] => seen[r].hash = manifest[Run(r)].hash
    /\ pc[r] = "unpause" /\ sealed[Run(r)] = "none"
          => manifest[Run(r)].state \in {"PAUSED", "RUNNING"}

(* A run id that is not handed out has nothing on disk, and decisions are  *)
(* there only for a sealed checkpoint.                                     *)
Grounded ==
    \A n \in Runs :
        /\ manifest[n] = Absent =>
              files[n] = {} /\ sealed[n] = "none" /\ decisions[n] = <<>>
        /\ decisions[n] # <<>> => sealed[n] # "none"

EInv == Grounded /\ SynthesisIsRatified /\ \A r \in Requests : Evidence(r)

-----------------------------------------------------------------------------
(* The steps. *)

(* A step that touches neither the disk nor a thread at work on a run.     *)
Quiet ==
    /\ UNCHANGED disk
    /\ \A q \in Requests :
          /\ pc'[q] \in Working => pc'[q] = pc[q] /\ call'[q] = call[q]
                                     /\ mid'[q] = mid[q] /\ seen'[q] = seen[q]
          /\ made'[q] # {} => made'[q] = made[q] /\ (pc[q] \in Making => pc'[q] \in Making)

(* Steps that write to the disk, and steps that only move a thread at work.*)
Writes(r) ==
    \/ Admit(r) \/ AssembleCorpus(r) \/ StartRunning(r) \/ ParseAttributes(r)
    \/ ClusterAttributes(r) \/ SealTriage(r) \/ RecordDecisions(r)
    \/ WriteCandidates(r) \/ LogAppend(r) \/ UpdateWrite(r)
Moves(r) ==
    \/ AcquireLock(r) \/ ResumeRun(r) \/ CheckPasses(r) \/ ResumeAfterCheckpoint(r)
    \/ Synthesise(r) \/ SynthesisEnds(r) \/ LogRead(r) \/ UpdateRead(r)
Busy(r) == Writes(r) \/ Moves(r)

(* A thread that leaves its handler is quiet, ... *)
LEMMA QuietFinish ==
    ASSUME TypeOK, NEW r \in Requests, NEW answer, Finish(r, answer), UNCHANGED disk
    PROVE  Quiet
BY DEF TypeOK, Quiet, Finish, Go, Working, BuildLabels, Checked

(* ... and so is one that comes to a place that says nothing. *)
LEMMA QuietGo ==
    ASSUME TypeOK, NEW r \in Requests, NEW label, label \notin Working, Go(r, label),
           pc[r] \in Making => label \in Making, UNCHANGED <<disk, mid, seen, made>>,
           \A q \in Requests \ {r} : call'[q] = call[q]
    PROVE  Quiet
BY DEF TypeOK, Quiet, Go

(* The steps of Next are these, and the drift of a corpus. *)
LEMMA StepsKnown ==
    ASSUME TypeOK, [Next]_vars
    PROVE  \/ Quiet
           \/ \E r \in Requests : Busy(r)
           \/ \E n \in Runs : DriftCorpus(n)
<1> USE DEF memory, locals, client, Making, Working, BuildLabels, Checked
<1>1. ASSUME NEW r \in Requests, NEW c \in Calls, Send(r, c) PROVE Quiet
  <2>1. Go(r, "look") \/ Go(r, "lock")
    BY <1>1 DEF Send
  <2>2. \A q \in Requests \ {r} : call'[q] = call[q]
    BY <1>1 DEF Send, TypeOK
  <2> QED BY <1>1, <2>1, <2>2, QuietGo DEF Send
<1>2. ASSUME NEW r \in Requests, SendRequest(r) PROVE Quiet
  <2>1. CASE SendCreate(r)
    <3>1. PICK k \in Keys \union {NoKey} :
             Send(r, [NoCall EXCEPT !.op = "create", !.key = k])
      BY <2>1 DEF SendCreate
    <3>2. [NoCall EXCEPT !.op = "create", !.key = k] \in Calls
      BY DEF NoCall, Calls, TypeOK
    <3> QED BY <3>1, <3>2, <1>1
  <2>2. CASE SendPauseOrResume(r)
    <3>1. PICK n \in known, op \in {"pause", "resume"} :
             Send(r, [NoCall EXCEPT !.op = op, !.run = n])
      BY <2>2 DEF SendPauseOrResume
    <3>2. [NoCall EXCEPT !.op = op, !.run = n] \in Calls
      BY DEF NoCall, Calls, TypeOK
    <3> QED BY <3>1, <3>2, <1>1
  <2>3. CASE SendDecisions(r)
    <3>1. PICK n \in known, k \in Keys \union {NoKey}, complete \in BOOLEAN :
             Send(r, [op |-> "decide", run |-> n, key |-> k,
                      complete |-> complete])
      BY <2>3 DEF SendDecisions
    <3>2. [op |-> "decide", run |-> n, key |-> k,
           complete |-> complete] \in Calls
      BY DEF Calls, TypeOK
    <3> QED BY <3>1, <3>2, <1>1
  <2> QED BY <1>2, <2>1, <2>2, <2>3 DEF SendRequest
<1>3. ASSUME NEW r \in Requests, Serve(r), ~Busy(r) PROVE Quiet
  <2>1. CASE Look(r)
    <3>1. CASE \E answer : Finish(r, answer)
      BY <2>1, <3>1, QuietFinish DEF Look
    <3>2. CASE (Go(r, "list") \/ Go(r, "lock")) /\ UNCHANGED <<locals, client>>
      BY <2>1, <3>2, QuietGo DEF Look
    <3> QED BY <2>1, <3>1, <3>2 DEF Look
  <2>2. CASE Remember(r)  BY <2>2, QuietFinish DEF Remember
  <2>3. CASE GetLock(r)  BY <2>3, QuietGo DEF GetLock
  <2>4. CASE MakeLock(r)  BY <2>4, QuietGo DEF MakeLock
  <2>5. CASE Scan(r)
    <3>1. CASE \E n \in unread[r] : ReadRun(r, n)
      BY <2>5, <3>1 DEF Scan, ReadRun, Quiet
    <3>2. CASE Finish(r, Error("409")) \/ (Go(r, "admit") /\ UNCHANGED <<locals, client>>)
      BY <2>5, <3>2, QuietFinish, QuietGo DEF Scan
    <3> QED BY <2>5, <3>1, <3>2 DEF Scan
  <2>11. CASE ListRuns(r)  BY <2>11, QuietGo DEF ListRuns
  <2>6. CASE CreateFails(r)  BY <2>6, QuietFinish DEF CreateFails
  <2>7. CASE LeaveLock(r)  BY <2>7, QuietFinish, QuietGo DEF LeaveLock
  <2>8. CASE NotSealed(r)  BY <2>8, QuietFinish DEF NotSealed, Fail
  <2>9. CASE CorpusDrift(r)  BY <2>9, QuietFinish DEF CorpusDrift, Fail
  <2>10. CASE SynthesisFails(r)  BY <2>10, QuietFinish DEF SynthesisFails, Fail
  <2> QED BY <1>3, <2>1, <2>2, <2>3, <2>4, <2>5, <2>6, <2>7, <2>8, <2>9, <2>10, <2>11
          DEF Serve, CreateStep, LockedStep, SharedStep, Busy, Writes, Moves
<1>4. ASSUME Restart PROVE Quiet
  BY <1>4 DEF Restart, InFlight, Quiet
<1>5. ASSUME NEW n \in Runs, FindOrphan(n) PROVE Quiet
  BY <1>5 DEF FindOrphan, Quiet
<1>6. ASSUME UNCHANGED vars PROVE Quiet
  BY <1>6 DEF vars, Quiet
<1> QED BY <1>2, <1>3, <1>4, <1>5, <1>6 DEF Next, Environment

(* A thread at work on a run works on one that is stored, ... *)
LEMMA WorksOnStored ==
    ASSUME IInv, NEW r \in Requests, pc[r] \in BuildLabels \union LockedLabels
    PROVE  Run(r) \in Runs /\ manifest[Run(r)] # Absent
<1>0. TypeOK /\ Serving /\ Naming /\ Ownership
  BY DEF IInv
<1>1. Run(r) \in Runs
  BY <1>0, RunKnown
<1>2. CASE call[r].op \in OnRun
  BY <1>0, <1>1, <1>2 DEF Serving, Naming
<1>3. CASE call[r].op = "create"
  <2>1. Builds(r)
    BY <1>3 DEF IInv, Serving, Builds, OnRun
  <2> QED BY <2>1 DEF IInv, Ownership
<1> QED BY <1>1, <1>2, <1>3 DEF IInv, Serving, OnRun, BuildLabels

(* ... and the run of a create is nobody else's. *)
LEMMA BuildsAlone ==
    ASSUME IInv, NEW q \in Requests, NEW r \in Requests, q # r, Builds(r),
           pc[q] \in BuildLabels \union LockedLabels
    PROVE  Run(q) # Run(r)
<1>1. Run(r) \in Runs \ known
  BY DEF IInv, Ownership
<1>2. CASE Builds(q)
  BY <1>2 DEF IInv, Ownership
<1>3. CASE ~Builds(q)
  <2>1. call[q].op \in OnRun
    BY <1>3 DEF IInv, Serving, Builds, OnRun
  <2> QED BY <1>1, <2>1 DEF IInv, Serving
<1> QED BY <1>2, <1>3

(* create_run steps are of a thread that builds. *)
LEMMA CreateBuilds ==
    ASSUME IInv, NEW r \in Requests, pc[r] \in BuildLabels \ {"remember"}
    PROVE  Builds(r)
BY DEF IInv, Serving, Builds

(* A busy thread disturbs no other, ... *)
LEMMA OthersKept ==
    ASSUME IInv, NEW r \in Requests, Busy(r), NEW q \in Requests \ {r}
    PROVE  pc'[q] = pc[q] /\ call'[q] = call[q] /\ mid'[q] = mid[q]
           /\ seen'[q] = seen[q] /\ made'[q] = made[q]
<1> USE DEF IInv, TypeOK, Go, locals, client
<1>1. CASE Admit(r)  BY <1>1 DEF Admit
<1>2. CASE AssembleCorpus(r)  BY <1>2 DEF AssembleCorpus, WriteOutput
<1>3. CASE StartRunning(r)  BY <1>3 DEF StartRunning, WriteManifest
<1>4. CASE ParseAttributes(r)  BY <1>4 DEF ParseAttributes, WriteOutput
<1>5. CASE ClusterAttributes(r)  BY <1>5 DEF ClusterAttributes, WriteOutput
<1>6. CASE SealTriage(r)  BY <1>6 DEF SealTriage
<1>7. CASE RecordDecisions(r)  BY <1>7 DEF RecordDecisions
<1>8. CASE WriteCandidates(r)  BY <1>8 DEF WriteCandidates, WriteOutput
<1>9. CASE LogAppend(r)  BY <1>9 DEF LogAppend
<1>10. CASE UpdateWrite(r)  BY <1>10 DEF UpdateWrite, WriteManifest
<1>11. CASE AcquireLock(r)  BY <1>11 DEF AcquireLock
<1>12. CASE ResumeRun(r)  BY <1>12 DEF ResumeRun
<1>13. CASE CheckPasses(r)  BY <1>13 DEF CheckPasses
<1>14. CASE ResumeAfterCheckpoint(r)  BY <1>14 DEF ResumeAfterCheckpoint, Fail, Finish, Release
<1>15. CASE Synthesise(r)  BY <1>15 DEF Synthesise
<1>16. CASE SynthesisEnds(r)  BY <1>16 DEF SynthesisEnds
<1>17. CASE LogRead(r)  BY <1>17 DEF LogRead
<1>18. CASE UpdateRead(r)  BY <1>18 DEF UpdateRead
<1> QED BY <1>1, <1>2, <1>3, <1>4, <1>5, <1>6, <1>7, <1>8, <1>9, <1>10, <1>11, <1>12, <1>13,
        <1>14, <1>15, <1>16, <1>17, <1>18 DEF Busy, Writes, Moves
(* ... nothing on disk is taken back, ... *)
LEMMA Growth ==
    ASSUME IInv, NEW r \in Requests, Writes(r), NEW n \in Runs
    PROVE  /\ files[n] \subseteq files'[n]
           /\ Complete(n) => Complete(n)'
           /\ sealed[n] # "none" => sealed'[n] # "none"
<1> USE DEF IInv, TypeOK, Complete
<1>1. CASE Admit(r)  BY <1>1 DEF Admit
<1>2. CASE AssembleCorpus(r)  BY <1>2 DEF AssembleCorpus, WriteOutput
<1>3. CASE StartRunning(r)  BY <1>3 DEF StartRunning, WriteManifest
<1>4. CASE ParseAttributes(r)  BY <1>4 DEF ParseAttributes, WriteOutput
<1>5. CASE ClusterAttributes(r)  BY <1>5 DEF ClusterAttributes, WriteOutput
<1>6. CASE SealTriage(r)  BY <1>6 DEF SealTriage, Manifests, Hashes
<1>7. CASE RecordDecisions(r)
  <2>1. UNCHANGED <<files, sealed>> /\ n \in DOMAIN decisions
    BY <1>7 DEF RecordDecisions
  <2>2. CASE n = Run(r)
    <3> DEFINE batch == [key |-> call[r].key, complete |-> call[r].complete]
    <3>1. decisions'[n] = Append(decisions[n], batch) /\ decisions[n] \in Seq(Batches)
      BY <1>7, <2>1, <2>2 DEF RecordDecisions
    <3> HIDE DEF batch
    <3>2. \A i \in DOMAIN decisions[n] :
             i \in DOMAIN decisions'[n] /\ decisions'[n][i] = decisions[n][i]
      BY <3>1
    <3> QED BY <2>1, <3>2
  <2>3. CASE n # Run(r)
    BY <1>7, <2>1, <2>3 DEF RecordDecisions
  <2> QED BY <2>2, <2>3
<1>8. CASE WriteCandidates(r)
  <2>1. /\ UNCHANGED <<decisions, sealed>>
        /\ files' = [files EXCEPT ![Run(r)] = files[Run(r)] \union {"candidates"}]
    BY <1>8 DEF WriteCandidates, WriteOutput
  <2> QED BY <2>1
<1>9. CASE LogAppend(r)  BY <1>9 DEF LogAppend
<1>10. CASE UpdateWrite(r)  BY <1>10 DEF UpdateWrite, WriteManifest
<1> QED BY <1>1, <1>2, <1>3, <1>4, <1>5, <1>6, <1>7, <1>8, <1>9, <1>10 DEF Writes

(* ... no moving step touches the disk, ... *)
LEMMA MovesKeepDisk ==
    ASSUME NEW r \in Requests, Moves(r) PROVE UNCHANGED disk
<1>1. CASE AcquireLock(r)  BY <1>1 DEF AcquireLock
<1>2. CASE ResumeRun(r)  BY <1>2 DEF ResumeRun
<1>3. CASE CheckPasses(r)  BY <1>3 DEF CheckPasses
<1>4. CASE ResumeAfterCheckpoint(r)  BY <1>4 DEF ResumeAfterCheckpoint, Fail, Finish, Release
<1>5. CASE Synthesise(r)  BY <1>5 DEF Synthesise
<1>6. CASE SynthesisEnds(r)  BY <1>6 DEF SynthesisEnds
<1>7. CASE LogRead(r)  BY <1>7 DEF LogRead
<1>8. CASE UpdateRead(r)  BY <1>8 DEF UpdateRead
<1> QED BY <1>1, <1>2, <1>3, <1>4, <1>5, <1>6, <1>7, <1>8 DEF Moves

(* ... and no write changes the hashes of a run another thread works on, or*)
(* takes an unsealed one of those out of PAUSED and RUNNING.               *)
LEMMA HashKept ==
    ASSUME IInv, NEW r \in Requests, Evidence(r), Writes(r), NEW q \in Requests \ {r},
           pc[q] \in BuildLabels \union LockedLabels
    PROVE  /\ manifest'[Run(q)].hash = manifest[Run(q)].hash
           /\ sealed'[Run(q)] = sealed[Run(q)]
           /\ sealed[Run(q)] = "none" /\ manifest[Run(q)].state \in {"PAUSED", "RUNNING"}
                 => manifest'[Run(q)].state \in {"PAUSED", "RUNNING"}
<1>1. /\ Run(q) \in Runs /\ manifest[Run(q)] # Absent
      /\ Builds(r) => Run(q) # Run(r)
      /\ pc[r] \in BuildLabels \ {"remember"} => Builds(r)
  BY WorksOnStored, BuildsAlone, CreateBuilds
<1>2. /\ manifest \in [Runs -> Manifests] /\ sealed \in [Runs -> Hashes \union {"none"}]
  BY DEF IInv, TypeOK
<1>3. CASE Admit(r)  BY <1>3, <1>1, <1>2 DEF Admit
<1>4. CASE AssembleCorpus(r)  BY <1>4, <1>1, <1>2 DEF AssembleCorpus, WriteOutput
<1>5. CASE StartRunning(r)  BY <1>5, <1>1, <1>2 DEF StartRunning, WriteManifest, BuildLabels
<1>6. CASE ParseAttributes(r)  BY <1>6, <1>1, <1>2 DEF ParseAttributes, WriteOutput
<1>7. CASE ClusterAttributes(r)  BY <1>7, <1>1, <1>2 DEF ClusterAttributes, WriteOutput
<1>8. CASE SealTriage(r)  BY <1>8, <1>1, <1>2 DEF SealTriage, BuildLabels
<1>9. CASE RecordDecisions(r)  BY <1>9, <1>1, <1>2 DEF RecordDecisions
<1>10. CASE WriteCandidates(r)  BY <1>10, <1>1, <1>2 DEF WriteCandidates, WriteOutput
<1>11. CASE LogAppend(r)  BY <1>11, <1>1, <1>2 DEF LogAppend
<1>12. CASE UpdateWrite(r)  BY <1>12, <1>1, <1>2 DEF UpdateWrite, WriteManifest,
        BuildLabels, UpdateLabels, Updates, Update, Evidence, Checked
<1> QED BY <1>3, <1>4, <1>5, <1>6, <1>7, <1>8, <1>9, <1>10, <1>11, <1>12 DEF Writes

-----------------------------------------------------------------------------
(* The evidence of each thread is kept. *)

(* What another thread relies on stays. *)
LEMMA OthersEvidence ==
    ASSUME IInv, NEW r \in Requests, Evidence(r), Busy(r),
           NEW q \in Requests \ {r}, Evidence(q)
    PROVE  Evidence(q)'
<1>1. pc'[q] = pc[q] /\ call'[q] = call[q] /\ mid'[q] = mid[q] /\ seen'[q] = seen[q]
  BY OthersKept
<1>2. Run(q)' = Run(q) /\ Builds(q)' = Builds(q)
  BY <1>1 DEF Run, Builds
<1>3. CASE pc[q] \notin BuildLabels \union LockedLabels
  BY <1>1, <1>3 DEF Evidence, AfterS1, AfterS3, AfterS4, Unsealed, Checked, Ratified, Stored,
                    UpdateLabels, BuildLabels, LockedLabels
<1>4. CASE pc[q] \in BuildLabels \union LockedLabels /\ Moves(r)
  <2>1. UNCHANGED <<manifest, files, sealed, decisions>>
    BY <1>4, MovesKeepDisk DEF disk
  <2> QED BY <1>1, <1>2, <2>1 DEF Evidence, Complete, Drifted
<1>5. CASE pc[q] \in BuildLabels \union LockedLabels /\ Writes(r)
  <2>1. Run(q) \in Runs
    BY <1>5, WorksOnStored
  <2>2. /\ files[Run(q)] \subseteq files'[Run(q)]
        /\ Complete(Run(q)) => Complete(Run(q))'
        /\ sealed[Run(q)] # "none" => sealed'[Run(q)] # "none"
    <3>1. ASSUME NEW n \in Runs
          PROVE  /\ files[n] \subseteq files'[n]
                 /\ Complete(n) => Complete(n)'
                 /\ sealed[n] # "none" => sealed'[n] # "none"
      BY <1>5, Growth
    <3> QED BY <1>2, <2>1, <3>1 DEF Complete
  <2>3. /\ manifest'[Run(q)].hash = manifest[Run(q)].hash
        /\ sealed'[Run(q)] = sealed[Run(q)]
        /\ sealed[Run(q)] = "none" /\ manifest[Run(q)].state \in {"PAUSED", "RUNNING"}
              => manifest'[Run(q)].state \in {"PAUSED", "RUNNING"}
    BY <1>5, HashKept
  <2> QED BY <1>1, <1>2, <2>2, <2>3 DEF Evidence, Drifted
<1> QED BY <1>3, <1>4, <1>5 DEF Busy

(* What the acting thread comes to rely on holds. *)
LEMMA OwnEvidence ==
    ASSUME IInv, Grounded, NEW r \in Requests, Evidence(r), Busy(r)
    PROVE  Evidence(r)'
<1>1. /\ manifest \in [Runs -> Manifests] /\ files \in [Runs -> SUBSET Outputs]
      /\ sealed \in [Runs -> Hashes \union {"none"}]
      /\ pc \in [Requests -> Labels] /\ mid \in [Requests -> BOOLEAN]
      /\ seen \in [Requests -> Manifests] /\ call \in [Requests -> Calls]
      /\ decisions \in [Runs -> Seq(Batches)]
  BY DEF IInv, TypeOK
<1>2. mid[r] => pc[r] \in LogLabels \union UpdateLabels
  BY DEF IInv, Serving
<1>3. pc[r] \in BuildLabels \union LockedLabels => Run(r) \in Runs
  BY WorksOnStored
<1> USE DEF Evidence, Go, Builds, Run, Drifted, Complete, disk, client, locals, AfterS1,
        AfterS3, AfterS4, Unsealed, Checked, Ratified, Stored, BuildLabels, LockedLabels,
        LogLabels, UpdateLabels
<1>4. CASE Admit(r)  BY <1>4, <1>1 DEF Admit, Grounded
<1>5. CASE AssembleCorpus(r)  BY <1>5, <1>1, <1>2, <1>3 DEF AssembleCorpus, WriteOutput
<1>6. CASE StartRunning(r)  BY <1>6, <1>1, <1>2, <1>3 DEF StartRunning, WriteManifest
<1>7. CASE ParseAttributes(r)  BY <1>7, <1>1, <1>2, <1>3 DEF ParseAttributes, WriteOutput
<1>8. CASE ClusterAttributes(r)  BY <1>8, <1>1, <1>2, <1>3 DEF ClusterAttributes, WriteOutput
<1>9. CASE SealTriage(r)  BY <1>9, <1>1, <1>2, <1>3 DEF SealTriage
<1>10. CASE RecordDecisions(r)  BY <1>10, <1>1, <1>2, <1>3 DEF RecordDecisions
<1>11. CASE WriteCandidates(r)  BY <1>11, <1>1, <1>2, <1>3 DEF WriteCandidates, WriteOutput
<1>12. CASE LogAppend(r)  BY <1>12, <1>1, <1>2, <1>3 DEF LogAppend, Logs, Log
<1>13. CASE UpdateWrite(r)  BY <1>13, <1>1, <1>2, <1>3 DEF UpdateWrite, WriteManifest,
        Updates, Update
<1>14. CASE AcquireLock(r)  BY <1>14, <1>1, <1>2, <1>3 DEF AcquireLock, Calls
<1>15. CASE ResumeRun(r)  BY <1>15, <1>1, <1>2, <1>3 DEF ResumeRun
<1>16. CASE CheckPasses(r)  BY <1>16, <1>1, <1>2, <1>3 DEF CheckPasses
<1>17. CASE ResumeAfterCheckpoint(r)  BY <1>17, <1>1, <1>2, <1>3 DEF ResumeAfterCheckpoint,
        Fail, Finish, DecisionsComplete
<1>18. CASE Synthesise(r)  BY <1>18, <1>1, <1>2, <1>3 DEF Synthesise
<1>19. CASE SynthesisEnds(r)  BY <1>19, <1>1, <1>2, <1>3 DEF SynthesisEnds
<1>20. CASE LogRead(r)  BY <1>20, <1>1, <1>2, <1>3 DEF LogRead
<1>21. CASE UpdateRead(r)  BY <1>21, <1>1, <1>2, <1>3 DEF UpdateRead
<1> QED BY <1>4, <1>5, <1>6, <1>7, <1>8, <1>9, <1>10, <1>11, <1>12, <1>13, <1>14, <1>15,
        <1>16, <1>17, <1>18, <1>19, <1>20, <1>21 DEF Busy, Writes, Moves

-----------------------------------------------------------------------------
(* What is on disk stays in order. *)

(* Nothing is written for a run that is not stored, nor decisions before a seal. *)
LEMMA GroundedStep ==
    ASSUME IInv, EInv, NEW r \in Requests, Writes(r)
    PROVE  Grounded'
<1>1. /\ manifest \in [Runs -> Manifests] /\ files \in [Runs -> SUBSET Outputs]
      /\ sealed \in [Runs -> Hashes \union {"none"}]
      /\ seen \in [Requests -> Manifests]
      /\ decisions \in [Runs -> Seq(Batches)]
  BY DEF IInv, TypeOK
<1>2. /\ pc[r] \in BuildLabels \union LockedLabels
            => Run(r) \in Runs /\ manifest[Run(r)] # Absent
      /\ pc[r] \in Checked => sealed[Run(r)] # "none"
      /\ Grounded
  BY WorksOnStored DEF EInv, Evidence
<1> USE DEF Grounded, Checked, BuildLabels, LockedLabels, LogLabels, UpdateLabels, Absent
<1>3. CASE Admit(r)  BY <1>3, <1>1, <1>2 DEF Admit
<1>4. CASE AssembleCorpus(r)  BY <1>4, <1>1, <1>2 DEF AssembleCorpus, WriteOutput
<1>5. CASE StartRunning(r)  BY <1>5, <1>1, <1>2 DEF StartRunning, WriteManifest
<1>6. CASE ParseAttributes(r)  BY <1>6, <1>1, <1>2 DEF ParseAttributes, WriteOutput
<1>7. CASE ClusterAttributes(r)  BY <1>7, <1>1, <1>2 DEF ClusterAttributes, WriteOutput
<1>8. CASE SealTriage(r)  BY <1>8, <1>1, <1>2 DEF SealTriage, Manifests, Hashes
<1>9. CASE RecordDecisions(r)  BY <1>9, <1>1, <1>2 DEF RecordDecisions
<1>10. CASE WriteCandidates(r)  BY <1>10, <1>1, <1>2 DEF WriteCandidates, WriteOutput
<1>11. CASE LogAppend(r)  BY <1>11, <1>1, <1>2 DEF LogAppend
<1>12. CASE UpdateWrite(r)  BY <1>12, <1>1, <1>2 DEF UpdateWrite, WriteManifest, Updates, Update
<1> QED BY <1>3, <1>4, <1>5, <1>6, <1>7, <1>8, <1>9, <1>10, <1>11, <1>12 DEF Writes

(* Candidates are written after a complete batch, seals after the clusters. *)
LEMMA RatifiedStep ==
    ASSUME IInv, EInv, NEW r \in Requests, Writes(r)
    PROVE  SynthesisIsRatified'
<1>1. /\ manifest \in [Runs -> Manifests] /\ files \in [Runs -> SUBSET Outputs]
      /\ sealed \in [Runs -> Hashes \union {"none"}] /\ seen \in [Requests -> Manifests]
  BY DEF IInv, TypeOK
<1>2. /\ pc[r] \in BuildLabels \union LockedLabels => Run(r) \in Runs
      /\ pc[r] = "seal" => {"corpus", "attributes", "clusters"} \subseteq files[Run(r)]
      /\ pc[r] \in {"store", "ready"} => sealed[Run(r)] # "none" /\ Complete(Run(r))
      /\ pc[r] = "ready" => "candidates" \in files[Run(r)]
  <2>1. pc[r] = "seal" => Builds(r)
    BY CreateBuilds DEF BuildLabels
  <2> QED BY <2>1, WorksOnStored DEF EInv, Evidence, AfterS1, AfterS3, AfterS4, Unsealed,
          Checked, Ratified, Stored, BuildLabels, LockedLabels, LogLabels, UpdateLabels
<1>3. /\ SynthesisIsRatified
      /\ \A n \in Runs : Complete(n) => Complete(n)'
  BY Growth DEF EInv
<1> USE <1>1, <1>2, <1>3 DEF SynthesisIsRatified, Complete, BuildLabels, LockedLabels,
        LogLabels, UpdateLabels
<1>4. CASE Admit(r)  BY <1>4 DEF Admit
<1>5. CASE AssembleCorpus(r)  BY <1>5 DEF AssembleCorpus, WriteOutput
<1>6. CASE StartRunning(r)  BY <1>6 DEF StartRunning, WriteManifest
<1>7. CASE ParseAttributes(r)  BY <1>7 DEF ParseAttributes, WriteOutput
<1>8. CASE ClusterAttributes(r)  BY <1>8 DEF ClusterAttributes, WriteOutput
<1>9. CASE SealTriage(r)  BY <1>9 DEF SealTriage, Manifests, Hashes
<1>10. CASE RecordDecisions(r)  BY <1>10 DEF RecordDecisions
<1>11. CASE WriteCandidates(r)  BY <1>11 DEF WriteCandidates, WriteOutput
<1>12. CASE LogAppend(r)  BY <1>12 DEF LogAppend
<1>13. CASE UpdateWrite(r)  BY <1>13 DEF UpdateWrite, WriteManifest, Updates, Update
<1> QED BY <1>4, <1>5, <1>6, <1>7, <1>8, <1>9, <1>10, <1>11, <1>12, <1>13 DEF Writes

-----------------------------------------------------------------------------
(* The invariant. *)

(* Nothing is on disk initially, and no thread is at work. *)
LEMMA EInvInit == Init => EInv
BY DEF Init, EInv, Grounded, SynthesisIsRatified, Evidence, Builds, Absent, AfterS1,
        AfterS3, AfterS4, Unsealed, Checked, Ratified, Stored, BuildLabels, LockedLabels,
        LogLabels, UpdateLabels

(* Every step keeps the evidence. *)
LEMMA EInvStep == IInv /\ EInv /\ [Next]_vars => EInv'
<1> SUFFICES ASSUME IInv, EInv, [Next]_vars PROVE EInv'
  OBVIOUS
<1>1. CASE Quiet
  <2>1. UNCHANGED <<manifest, files, sealed, decisions>>
    BY <1>1 DEF Quiet, disk
  <2>2. Grounded' /\ SynthesisIsRatified'
    BY <2>1 DEF EInv, Grounded, SynthesisIsRatified
  <2>3. ASSUME NEW q \in Requests PROVE Evidence(q)'
    <3>1. CASE pc'[q] \in Working
      BY <1>1, <2>1, <3>1 DEF EInv, Quiet, Evidence, Complete, Drifted, Run, Builds
    <3>2. CASE pc'[q] \notin Working
      BY <3>2 DEF Evidence, Working, AfterS1, AfterS3, AfterS4, Unsealed, Checked, Ratified,
              Stored, BuildLabels, LockedLabels, LogLabels, UpdateLabels
    <3> QED BY <3>1, <3>2
  <2> QED BY <2>2, <2>3 DEF EInv
<1>2. ASSUME NEW r \in Requests, Busy(r) PROVE EInv'
  <2>1. \A q \in Requests : Evidence(q)'
    BY <1>2, OwnEvidence, OthersEvidence DEF EInv
  <2>2. CASE Writes(r)
    BY <2>1, <2>2, GroundedStep, RatifiedStep DEF EInv
  <2>3. CASE Moves(r)
    BY <2>1, <2>3, MovesKeepDisk DEF EInv, Grounded, SynthesisIsRatified, disk
  <2> QED BY <1>2, <2>2, <2>3 DEF Busy
<1>3. ASSUME NEW n \in Runs, DriftCorpus(n) PROVE EInv'
  <2>1. UNCHANGED <<files, sealed, decisions, pc, call, mid, seen>>
    BY <1>3 DEF DriftCorpus, locals, client
  <2>2. /\ manifest \in [Runs -> Manifests] /\ n \in known /\ manifest[n] # Absent
        /\ manifest' = [manifest EXCEPT ![n] = [manifest[n] EXCEPT !.hash = "moved"]]
    BY <1>3 DEF DriftCorpus, IInv, TypeOK, Naming
  <2>3. \A m \in Runs : /\ manifest'[m].state = manifest[m].state
                        /\ m # n => manifest'[m] = manifest[m]
                        /\ manifest'[m] = Absent => manifest[m] = Absent
    BY <2>2 DEF Manifests, Absent
  <2>4. Grounded' /\ SynthesisIsRatified'
    BY <2>1, <2>3 DEF EInv, Grounded, SynthesisIsRatified
  <2>5. ASSUME NEW q \in Requests PROVE Evidence(q)'
    <3>1. CASE pc[q] \notin BuildLabels \union LockedLabels
      BY <2>1, <3>1 DEF Evidence, AfterS1, AfterS3, AfterS4, Unsealed, Checked, Ratified,
              Stored, BuildLabels, LockedLabels, LogLabels, UpdateLabels
    <3>2. CASE pc[q] \in (BuildLabels \ {"remember"}) \union LockedLabels
      <4>1. Run(q) \in Runs /\ Run(q) # n
        <5>1. Builds(q) \/ Holds(q)
          BY <3>2 DEF IInv, Serving, Builds, Holds, OnRun
        <5>2. Holds(q) => Run(q) # n
          BY <1>3 DEF DriftCorpus
        <5> QED BY <3>2, <5>1, <5>2, <2>2, WorksOnStored DEF IInv, Ownership
      <4> QED BY <2>1, <2>3, <4>1 DEF EInv, Evidence, Complete, Drifted, Run, Builds
    <3>3. CASE pc[q] = "remember"
      BY <2>1, <3>3 DEF Evidence, AfterS1, AfterS3, AfterS4, Unsealed, Checked, Ratified,
              Stored, BuildLabels, LockedLabels, LogLabels, UpdateLabels
    <3> QED BY <3>1, <3>2, <3>3
  <2> QED BY <2>4, <2>5 DEF EInv
<1> QED BY <1>1, <1>2, <1>3, StepsKnown DEF IInv

(* So it is always there. *)
LEMMA Evident == Spec => [](IInv /\ EInv)
<1>1. Init => IInv /\ EInv
  BY IInvInit, EInvInit
<1>2. (IInv /\ EInv) /\ [Next]_vars => (IInv /\ EInv)'
  BY IInvStep, EInvStep
<1> QED BY <1>1, <1>2, PTL DEF Spec

-----------------------------------------------------------------------------
(* The journal. *)

(* What a thread has journalled before it stores what the event announces. *)
Recorded(r) ==
    /\ Builds(r) /\ pc[r] = "S3" => Journalled(Run(r), "S1")
    /\ Builds(r) /\ pc[r] = "S4" => Journalled(Run(r), "S3")
    /\ Builds(r) /\ pc[r] = "seal" => Journalled(Run(r), "S4")
    /\ pc[r] \in {"synth", "logTool", "logReject", "store"} => Journalled(Run(r), "S5")
    /\ pc[r] = "ready" => Journalled(Run(r), "S7")
    /\ made[r] # {} => pc[r] \in Making
    /\ made[r] # {} /\ pc[r] \in {"synth", "logReject", "store"} => Journalled(Run(r), "tool")

RInv == JournalAccountsForStore /\ \A r \in Requests : Recorded(r)

(* What is journalled stays so, ... *)
LEMMA JournalGrowth ==
    ASSUME IInv, NEW r \in Requests, Writes(r), NEW n \in Runs, NEW stage
    PROVE  Journalled(n, stage) => Journalled(n, stage)'
<1>1. journal \in [Runs -> Seq(JournalEvents)]
  BY DEF IInv, TypeOK
<1>2. CASE LogAppend(r) /\ n = Run(r)
  <2> DEFINE event == [seq |-> seq[r], stage |-> Logs[pc[r]].stage,
                       outcome |-> Logs[pc[r]].outcome]
  <2>1. journal'[n] = Append(journal[n], event) /\ journal[n] \in Seq(JournalEvents)
    BY <1>1, <1>2 DEF LogAppend
  <2> HIDE DEF event
  <2>2. \A i \in DOMAIN journal[n] : i \in DOMAIN journal'[n] /\ journal'[n][i] = journal[n][i]
    BY <2>1
  <2> QED BY <2>2 DEF Journalled
<1>3. CASE journal'[n] = journal[n]
  BY <1>3 DEF Journalled
<1>4. CASE ~LogAppend(r)
  BY <1>3, <1>4 DEF Writes, Admit, AssembleCorpus, StartRunning, ParseAttributes, WriteOutput,
                    ClusterAttributes, SealTriage, RecordDecisions, WriteCandidates, UpdateWrite
<1>5. CASE LogAppend(r) /\ n # Run(r)
  BY <1>1, <1>3, <1>5 DEF LogAppend
<1> QED BY <1>2, <1>4, <1>5

(* ... and a _journal call adds its event. *)
LEMMA EventAdded ==
    ASSUME IInv, NEW r \in Requests, LogAppend(r), NEW n \in Runs, n = Run(r),
           NEW stage, Logs[pc[r]].stage = stage, Logs[pc[r]].outcome = "ok"
    PROVE  Journalled(n, stage)'
<1> DEFINE event == [seq |-> seq[r], stage |-> Logs[pc[r]].stage,
                     outcome |-> Logs[pc[r]].outcome]
<1>1. journal'[n] = Append(journal[n], event) /\ journal[n] \in Seq(JournalEvents)
  BY DEF LogAppend, IInv, TypeOK
<1>2. event.stage = stage /\ event.outcome = "ok"
  OBVIOUS
<1> HIDE DEF event
<1>3. /\ Len(journal[n]) + 1 \in DOMAIN journal'[n]
      /\ journal'[n][Len(journal[n]) + 1] = event
  BY <1>1
<1> QED BY <1>2, <1>3 DEF Journalled

(* What the acting thread is to have journalled, it has. *)
LEMMA OwnRecorded ==
    ASSUME IInv, NEW r \in Requests, Recorded(r), Busy(r)
    PROVE  Recorded(r)'
<1>1. pc \in [Requests -> Labels] /\ made \in [Requests -> SUBSET Clusters]
      /\ call \in [Requests -> Calls]
  BY DEF IInv, TypeOK
<1>2. CASE Moves(r)
  <2> USE <1>1 DEF Recorded, Journalled, Run, Builds, Making, Go, disk, client, locals,
                   LogLabels, UpdateLabels
<2>1. CASE AcquireLock(r)  BY <2>1 DEF AcquireLock, Calls
<2>2. CASE ResumeRun(r)  BY <2>2 DEF ResumeRun
<2>3. CASE CheckPasses(r)  BY <2>3 DEF CheckPasses
<2>4. CASE ResumeAfterCheckpoint(r)  BY <2>4 DEF ResumeAfterCheckpoint, Fail, Finish
<2>5. CASE Synthesise(r)  BY <2>5 DEF Synthesise
<2>6. CASE SynthesisEnds(r)  BY <2>6 DEF SynthesisEnds
<2>7. CASE LogRead(r)  BY <2>7 DEF LogRead
<2>8. CASE UpdateRead(r)  BY <2>8 DEF UpdateRead
<2> QED BY <1>2, <2>1, <2>2, <2>3, <2>4, <2>5, <2>6, <2>7, <2>8 DEF Moves
<1>3. CASE LogAppend(r)
  <2> DEFINE n == Run(r)
  <2>1. /\ n \in Runs /\ n = Run(r)'
        /\ Builds(r)' => Builds(r)
    <3>1. n \in Runs
      BY <1>3, WorksOnStored, LabelsKnown DEF LogAppend
    <3>2. call' = call /\ pc[r] \in LogLabels
      BY <1>3 DEF LogAppend, client
    <3>3. call[r].op = "create" => pc[r] \in BuildLabels
      BY <3>2, LabelsKnown DEF IInv, Serving, OnRun
    <3> QED BY <3>1, <3>2, <3>3 DEF Run, Builds
  <2>2. /\ pc[r] \in LogLabels /\ pc' = [pc EXCEPT ![r] = Logs[pc[r]].then] /\ made' = made
    BY <1>3 DEF LogAppend, Go
  <2>3. \A stage \in Stages : Journalled(n, stage) => Journalled(Run(r), stage)'
    <3>1. ASSUME NEW m \in Runs, NEW stage \in Stages
          PROVE  Journalled(m, stage) => Journalled(m, stage)'
      BY <1>3, JournalGrowth DEF Writes
    <3> QED BY <2>1, <3>1 DEF Journalled
  <2>4. ASSUME NEW stage, Logs[pc[r]].stage = stage, Logs[pc[r]].outcome = "ok"
        PROVE  Journalled(Run(r), stage)'
    <3>1. ASSUME NEW m \in Runs, m = Run(r) PROVE Journalled(m, stage)'
      BY <1>3, <2>4, <3>1, EventAdded
    <3> QED BY <2>1, <3>1 DEF Journalled
  <2> HIDE DEF n
  <2>5. \A stage \in Stages : Logs[pc[r]].stage = stage /\ Logs[pc[r]].outcome = "ok"
                                 => Journalled(Run(r), stage)'
    BY <2>4
  <2>6. \A stage \in Stages :
           \/ Journalled(n, stage)
           \/ Logs[pc[r]].stage = stage /\ Logs[pc[r]].outcome = "ok"
           => Journalled(Run(r), stage)'
    BY <2>3, <2>5
  <2>7. pc'[r] = Logs[pc[r]].then /\ made'[r] = made[r]
    BY <1>1, <2>2
  <2>8. CASE Builds(r)'
    <3>1. pc[r] \in LogLabels /\ Builds(r)
      BY <2>1, <2>2, <2>8
    <3>2. made[r] = {}
      BY <3>1, LabelsKnown DEF Recorded, Making, LogLabels, Builds, BuildLabels
    <3> QED BY <2>6, <2>7, <3>1, <3>2 DEF Recorded, Stages, LogLabels, Logs, Log, Builds,
            BuildLabels, n
  <2>9. CASE ~Builds(r)'
    BY <2>2, <2>6, <2>7, <2>9 DEF Recorded, LogLabels, Logs, Log, Making, Stages, n
  <2> QED BY <2>8, <2>9
<1>4. CASE Writes(r) /\ ~LogAppend(r)
  <2> DEFINE GoesOn(label) == /\ Go(r, label) /\ made' = made
                              /\ made[r] # {} => label \in Making
                              /\ label \notin {"S3", "S4", "seal", "synth", "logTool",
                                               "logReject", "store", "ready"}
  <2>1. made[r] # {} => pc[r] \in Making
    BY DEF Recorded
  <2>2. \E label : GoesOn(label)
    <3> USE <2>1 DEF Making, locals
    <3>1. CASE Admit(r)  BY <3>1 DEF Admit
    <3>2. CASE AssembleCorpus(r)  BY <3>2 DEF AssembleCorpus, WriteOutput
    <3>3. CASE StartRunning(r)  BY <3>3 DEF StartRunning, WriteManifest
    <3>4. CASE ParseAttributes(r)  BY <3>4 DEF ParseAttributes, WriteOutput
    <3>5. CASE ClusterAttributes(r)  BY <3>5 DEF ClusterAttributes, WriteOutput
    <3>6. CASE SealTriage(r)  BY <3>6 DEF SealTriage
    <3>7. CASE RecordDecisions(r)  BY <3>7 DEF RecordDecisions
    <3>8. CASE WriteCandidates(r)  BY <3>8 DEF WriteCandidates, WriteOutput
    <3>9. CASE UpdateWrite(r)  BY <3>9 DEF UpdateWrite, WriteManifest, UpdateLabels,
            Updates, Update
    <3> QED BY <1>4, <3>1, <3>2, <3>3, <3>4, <3>5, <3>6, <3>7, <3>8, <3>9 DEF Writes
  <2> QED BY <1>1, <2>2 DEF Recorded, Go
<1> QED BY <1>2, <1>3, <1>4 DEF Busy

(* What another thread journalled stays. *)
LEMMA OthersRecorded ==
    ASSUME IInv, NEW r \in Requests, Busy(r), NEW q \in Requests \ {r}, Recorded(q)
    PROVE  Recorded(q)'
<1>1. pc'[q] = pc[q] /\ call'[q] = call[q] /\ made'[q] = made[q]
  BY OthersKept
<1>2. Run(q)' = Run(q) /\ Builds(q)' = Builds(q)
  BY <1>1 DEF Run, Builds
<1>3. CASE pc[q] \notin BuildLabels \union LockedLabels
  BY <1>1, <1>3 DEF Recorded, Builds, BuildLabels, LockedLabels, Making
<1>4. CASE pc[q] \in BuildLabels \union LockedLabels
  <2>1. ASSUME NEW n \in Runs, NEW stage PROVE Journalled(n, stage) => Journalled(n, stage)'
    <3>1. CASE Writes(r)
      BY <3>1, JournalGrowth
    <3>2. CASE Moves(r)
      BY <3>2, MovesKeepDisk DEF disk, Journalled
    <3> QED BY <3>1, <3>2 DEF Busy
  <2>2. Run(q) \in Runs
    BY <1>4, WorksOnStored
  <2>3. \A stage \in Stages : Journalled(Run(q), stage) => Journalled(Run(q), stage)'
    BY <1>2, <2>1, <2>2 DEF Journalled
  <2> QED BY <1>1, <1>2, <2>3 DEF Recorded, Stages
<1> QED BY <1>3, <1>4

(* What a write stores was journalled before. *)
LEMMA AccountsStep ==
    ASSUME IInv, RInv, NEW r \in Requests, Writes(r)
    PROVE  JournalAccountsForStore'
<1>1. /\ manifest \in [Runs -> Manifests] /\ files \in [Runs -> SUBSET Outputs]
      /\ sealed \in [Runs -> Hashes \union {"none"}]
      /\ candidates \in [Runs -> SUBSET Clusters]
  BY DEF IInv, TypeOK
<1>2. ASSUME NEW n \in Runs, NEW stage PROVE Journalled(n, stage) => Journalled(n, stage)'
  BY <1>2, JournalGrowth
<1>3. Recorded(r) /\ JournalAccountsForStore
  BY DEF RInv
<1>4. ASSUME NEW n \in Runs
      PROVE  /\ "attributes" \in files'[n] => Journalled(n, "S1")
             /\ "clusters" \in files'[n] => Journalled(n, "S3")
             /\ sealed'[n] # "none" => Journalled(n, "S4")
             /\ "candidates" \in files'[n] => Journalled(n, "S5")
             /\ candidates'[n] # {} => Journalled(n, "tool")
             /\ manifest'[n].state = "CANDIDATES_READY" => Journalled(n, "S7")
  <2>1. pc[r] \in {"S3", "S4", "seal"} => Builds(r)
    BY CreateBuilds DEF BuildLabels
  <2> USE <1>1, <1>3, <2>1 DEF Recorded, JournalAccountsForStore
<2>2. CASE Admit(r)  BY <2>2 DEF Admit
<2>3. CASE AssembleCorpus(r)  BY <2>3 DEF AssembleCorpus, WriteOutput
<2>4. CASE StartRunning(r)  BY <2>4 DEF StartRunning, WriteManifest
<2>5. CASE ParseAttributes(r)  BY <2>5 DEF ParseAttributes, WriteOutput
<2>6. CASE ClusterAttributes(r)  BY <2>6 DEF ClusterAttributes, WriteOutput
<2>7. CASE SealTriage(r)  BY <2>7 DEF SealTriage
<2>8. CASE RecordDecisions(r)  BY <2>8 DEF RecordDecisions
<2>9. CASE WriteCandidates(r)  BY <2>9 DEF WriteCandidates, WriteOutput
<2>10. CASE LogAppend(r)  BY <2>10 DEF LogAppend
<2>11. CASE UpdateWrite(r)  BY <2>11 DEF UpdateWrite, WriteManifest, UpdateLabels, Updates,
        Update
<2> QED BY <2>2, <2>3, <2>4, <2>5, <2>6, <2>7, <2>8, <2>9, <2>10, <2>11 DEF Writes
<1>5. ASSUME NEW n \in Runs
      PROVE  \A stage \in Stages : Journalled(n, stage) => Journalled(n, stage)'
  BY <1>2
<1> QED BY <1>4, <1>5 DEF JournalAccountsForStore, Stages

(* Every step keeps the accounts. *)
LEMMA RInvStep == IInv /\ RInv /\ [Next]_vars => RInv'
<1> SUFFICES ASSUME IInv, RInv, [Next]_vars PROVE RInv'
  OBVIOUS
<1>1. CASE Quiet
  <2>1. UNCHANGED <<manifest, files, sealed, candidates, journal>>
    BY <1>1 DEF Quiet, disk
  <2>2. JournalAccountsForStore'
    BY <2>1 DEF RInv, JournalAccountsForStore, Journalled
  <2>3. ASSUME NEW q \in Requests PROVE Recorded(q)'
    <3>1. made'[q] # {} => made[q] # {} /\ pc'[q] \in Making
      BY <1>1 DEF RInv, Recorded, Quiet
    <3>2. CASE pc'[q] \in Working
      <4>1. pc'[q] = pc[q] /\ call'[q] = call[q]
        BY <1>1, <3>2 DEF Quiet
      <4> QED BY <2>1, <3>1, <4>1 DEF RInv, Recorded, Journalled, Run, Builds
    <3>3. CASE pc'[q] \notin Working
      BY <3>1, <3>3 DEF Recorded, Working, Checked, BuildLabels
    <3> QED BY <3>2, <3>3
  <2> QED BY <2>2, <2>3 DEF RInv
<1>2. ASSUME NEW r \in Requests, Busy(r) PROVE RInv'
  <2>1. \A q \in Requests : Recorded(q)'
    BY <1>2, OwnRecorded, OthersRecorded DEF RInv
  <2>2. CASE Writes(r)
    BY <2>1, <2>2, AccountsStep DEF RInv
  <2>3. CASE Moves(r)
    <3>1. UNCHANGED <<manifest, files, sealed, candidates, journal>>
      BY <2>3, MovesKeepDisk DEF disk
    <3> QED BY <2>1, <3>1 DEF RInv, JournalAccountsForStore, Journalled
  <2> QED BY <1>2, <2>2, <2>3 DEF Busy
<1>3. ASSUME NEW n \in Runs, DriftCorpus(n) PROVE RInv'
  <2>1. UNCHANGED <<files, sealed, candidates, journal, pc, call, made>>
    BY <1>3 DEF DriftCorpus, locals, client
  <2>2. \A m \in Runs : manifest'[m].state = manifest[m].state
    BY <1>3 DEF DriftCorpus, IInv, TypeOK, Manifests
  <2>3. JournalAccountsForStore'
    BY <2>1, <2>2 DEF RInv, JournalAccountsForStore, Journalled
  <2>4. \A q \in Requests : Recorded(q)'
    BY <2>1 DEF RInv, Recorded, Journalled, Run, Builds
  <2> QED BY <2>3, <2>4 DEF RInv
<1> QED BY <1>1, <1>2, <1>3, StepsKnown DEF IInv

-----------------------------------------------------------------------------
(* The lifecycle. *)

(* The phase of a run that a write finds and leaves. *)
LEMMA PhaseStep ==
    ASSUME IInv, EInv, NEW r \in Requests, Writes(r)
    PROVE  \E n \in Runs :
              /\ \A m \in Runs \ {n} : Phase(m)' = Phase(m)
              /\ <<Phase(n), Phase(n)'>> \in
                    {<<"absent", "opened">>, <<"opened", "sealed">>, <<"sealed", "ratified">>,
                     <<"ratified", "synthesised">>}
                 \/ Phase(n)' = Phase(n)
<1>1. /\ manifest \in [Runs -> Manifests] /\ files \in [Runs -> SUBSET Outputs]
      /\ sealed \in [Runs -> Hashes \union {"none"}] /\ seen \in [Requests -> Manifests]
      /\ decisions \in [Runs -> Seq(Batches)]
  BY DEF IInv, TypeOK
<1>2. \A n \in Runs :
         /\ manifest[n] = Absent => files[n] = {} /\ sealed[n] = "none" /\ ~Complete(n)
         /\ Complete(n) => sealed[n] # "none"
         /\ "candidates" \in files[n] => Complete(n)
  BY <1>1 DEF EInv, Grounded, SynthesisIsRatified, Complete
<1>3. \A n \in Runs :
         Phase(n) = IF "candidates" \in files[n] THEN "synthesised"
                    ELSE IF Complete(n) THEN "ratified"
                    ELSE IF sealed[n] # "none" THEN "sealed"
                    ELSE IF manifest[n] # Absent THEN "opened" ELSE "absent"
  BY DEF Phase, Complete
<1>4. \A n \in Runs :
         Phase(n)' = IF "candidates" \in files'[n] THEN "synthesised"
                     ELSE IF Complete(n)' THEN "ratified"
                     ELSE IF sealed'[n] # "none" THEN "sealed"
                     ELSE IF manifest'[n] # Absent THEN "opened" ELSE "absent"
  BY DEF Phase, Complete
<1>5. CASE Admit(r)
  <2>1. PICK n \in Runs : /\ manifest[n] = Absent
                          /\ manifest' = [manifest EXCEPT ![n] = [state |-> "CREATED", hash
                                  |-> "zero"]]
    BY <1>5 DEF Admit
  <2>2. /\ UNCHANGED <<files, sealed>> /\ \A m \in Runs : Complete(m)' = Complete(m)
        /\ manifest'[n] # Absent /\ \A m \in Runs \ {n} : manifest'[m] = manifest[m]
    BY <1>1, <1>5, <2>1 DEF Admit, Complete, Absent
  <2> QED BY <1>2, <1>3, <1>4, <2>1, <2>2
<1>6. CASE ~Admit(r)
  <2>1. /\ Run(r) \in Runs /\ manifest[Run(r)] # Absent
        /\ pc[r] = "seal" => sealed[Run(r)] = "none"
        /\ pc[r] = "record" => sealed[Run(r)] # "none"
        /\ pc[r] = "store" => Complete(Run(r))
    <3>1. pc[r] \in BuildLabels \union LockedLabels
      BY <1>6 DEF Writes, AssembleCorpus, StartRunning, ParseAttributes, ClusterAttributes,
                  SealTriage, RecordDecisions, WriteCandidates, LogAppend, UpdateWrite,
                  BuildLabels, LockedLabels, LogLabels, UpdateLabels
    <3>2. pc[r] = "seal" => Builds(r)
      BY CreateBuilds DEF BuildLabels
    <3> QED BY <3>1, <3>2, WorksOnStored DEF EInv, Evidence, Unsealed, Checked, Ratified
  <2>2. \A n \in Runs : Complete(n) => Complete(n)'
    BY Growth
  <2>3. CASE AssembleCorpus(r) \/ ParseAttributes(r) \/ ClusterAttributes(r)
    <3>1. /\ UNCHANGED <<manifest, sealed, decisions>>
          /\ \A n \in Runs : "candidates" \in files'[n] <=> "candidates" \in files[n]
      <4>1. PICK output \in {"corpus", "attributes", "clusters"} :
               /\ files' = [files EXCEPT ![Run(r)] = files[Run(r)] \union {output}]
               /\ UNCHANGED <<manifest, sealed, decisions>>
        BY <2>3 DEF AssembleCorpus, ParseAttributes, ClusterAttributes, WriteOutput
      <4> QED BY <1>1, <2>1, <4>1
    <3>2. \A n \in Runs : Complete(n)' = Complete(n)
      BY <3>1 DEF Complete
    <3> QED BY <1>3, <1>4, <2>1, <3>1, <3>2
  <2>4. CASE StartRunning(r) \/ UpdateWrite(r) \/ LogAppend(r)
    <3>1. /\ UNCHANGED <<files, sealed, decisions>>
          /\ \A n \in Runs : manifest'[n] # Absent <=> manifest[n] # Absent
      <4>1. CASE StartRunning(r)
        BY <1>1, <2>1, <4>1 DEF StartRunning, WriteManifest, Absent
      <4>2. CASE UpdateWrite(r)
        BY <1>1, <2>1, <4>2, UpdatesKnown DEF UpdateWrite, WriteManifest, Absent
      <4>3. CASE LogAppend(r)
        BY <4>3 DEF LogAppend
      <4> QED BY <2>4, <4>1, <4>2, <4>3
    <3>2. \A n \in Runs : Complete(n)' = Complete(n)
      BY <3>1 DEF Complete
    <3> QED BY <1>3, <1>4, <2>1, <3>1, <3>2
  <2>5. CASE SealTriage(r)
    <3>1. /\ UNCHANGED <<manifest, files, decisions>> /\ sealed[Run(r)] = "none"
          /\ sealed'[Run(r)] # "none" /\ \A n \in Runs \ {Run(r)} : sealed'[n] = sealed[n]
      BY <1>1, <2>1, <2>5 DEF SealTriage, Manifests, Hashes
    <3>2. \A n \in Runs : Complete(n)' = Complete(n)
      BY <3>1 DEF Complete
    <3> QED BY <1>2, <1>3, <1>4, <2>1, <3>1, <3>2
  <2>6. CASE RecordDecisions(r)
    <3>1. /\ UNCHANGED <<manifest, files, sealed>> /\ sealed[Run(r)] # "none"
          /\ \A n \in Runs \ {Run(r)} : decisions'[n] = decisions[n]
      BY <1>1, <2>1, <2>6 DEF RecordDecisions
    <3>2. \A n \in Runs \ {Run(r)} : Complete(n)' = Complete(n)
      BY <3>1 DEF Complete
    <3> QED BY <1>2, <1>3, <1>4, <2>1, <2>2, <3>1, <3>2
  <2>7. CASE WriteCandidates(r)
    <3>1. /\ UNCHANGED <<manifest, sealed, decisions>> /\ Complete(Run(r))
          /\ files' = [files EXCEPT ![Run(r)] = files[Run(r)] \union {"candidates"}]
      BY <2>1, <2>7 DEF WriteCandidates, WriteOutput
    <3>2. \A n \in Runs : Complete(n)' = Complete(n)
      BY <3>1 DEF Complete
    <3>3. /\ "candidates" \in files'[Run(r)]
          /\ \A n \in Runs \ {Run(r)} : files'[n] = files[n]
      BY <1>1, <2>1, <3>1
    <3> QED BY <1>3, <1>4, <2>1, <3>1, <3>2, <3>3
  <2> QED BY <1>6, <2>3, <2>4, <2>5, <2>6, <2>7 DEF Writes
<1> QED BY <1>5, <1>6

-----------------------------------------------------------------------------
(* The theorems. *)

(* Humans ratify, whatever interleaves, crashes or drifts: candidates exist*)
(* only for a sealed run some batch declared complete, a seal only over    *)
(* finished clusters, and CANDIDATES_READY only over stored candidates.    *)
THEOREM Ratification == Spec => []SynthesisIsRatified
<1>1. IInv /\ EInv => SynthesisIsRatified
  BY DEF EInv
<1> QED BY <1>1, Evident, PTL

(* No decision is recorded, and no candidate stored, for a run whose corpus*)
(* hash is not the one sealed: no other thread moves the hash of a run that*)
(* was handed out, and what a thread writes back is what is stored.        *)
THEOREM DriftGuarded == Spec => NothingRatifiedOnMovedCorpus
<1>1. IInv /\ EInv /\ [Next]_vars =>
         \A n \in Runs :
            decisions'[n] # decisions[n] \/ candidates'[n] # candidates[n]
                => manifest[n].hash = sealed[n]
  <2> SUFFICES ASSUME IInv, EInv, [Next]_vars, NEW n \in Runs,
                      decisions'[n] # decisions[n] \/ candidates'[n] # candidates[n]
               PROVE  manifest[n].hash = sealed[n]
    OBVIOUS
  <2>1. CASE Quiet \/ \E m \in Runs : DriftCorpus(m)
    BY <2>1 DEF Quiet, DriftCorpus, disk
  <2>2. ASSUME NEW r \in Requests, Busy(r) PROVE manifest[n].hash = sealed[n]
    <3>1. /\ decisions \in [Runs -> Seq(Batches)]
          /\ candidates \in [Runs -> SUBSET Clusters]
      BY DEF IInv, TypeOK
    <3>2. Writes(r)
      BY <2>2, MovesKeepDisk DEF Busy, disk
    <3>3. RecordDecisions(r) \/ WriteCandidates(r)
      BY <3>2 DEF Writes, Admit, AssembleCorpus, StartRunning, ParseAttributes,
                  ClusterAttributes, SealTriage, LogAppend, UpdateWrite, WriteOutput
    <3>4. n = Run(r)
      BY <3>1, <3>3 DEF RecordDecisions, WriteCandidates, WriteOutput
    <3> QED BY <3>3, <3>4 DEF EInv, Evidence, Checked, Drifted, RecordDecisions, WriteCandidates
  <2> QED BY <2>1, <2>2, StepsKnown DEF IInv
<1> QED BY <1>1, Evident, PTL DEF Spec, NothingRatifiedOnMovedCorpus

(* A run whose create died before sealing TRIAGE is only paused and resumed. *)
THEOREM OrphansInert == Spec => OrphanOnlyPausesAndResumes
<1>1. IInv /\ EInv /\ [Next]_vars =>
         \A n \in Runs :
            Orphan(n) /\ manifest'[n].state # manifest[n].state
                => \/ manifest'[n].state = "PAUSED"
                   \/ manifest[n].state = "PAUSED" /\ manifest'[n].state = "RUNNING"
  <2> SUFFICES ASSUME IInv, EInv, [Next]_vars, NEW n \in Runs,
                      Orphan(n), manifest'[n].state # manifest[n].state
               PROVE  \/ manifest'[n].state = "PAUSED"
                      \/ manifest[n].state = "PAUSED" /\ manifest'[n].state = "RUNNING"
    OBVIOUS
  <2>0. manifest \in [Runs -> Manifests]
    BY DEF IInv, TypeOK
  <2>1. ~Quiet
    BY DEF Quiet, disk
  <2>2. ASSUME NEW m \in Runs, DriftCorpus(m) PROVE FALSE
    BY <2>0, <2>2 DEF DriftCorpus, Manifests
  <2>3. ASSUME NEW r \in Requests, Busy(r)
        PROVE  \/ manifest'[n].state = "PAUSED"
               \/ manifest[n].state = "PAUSED" /\ manifest'[n].state = "RUNNING"
    <3>1. Writes(r)
      BY <2>3, MovesKeepDisk DEF Busy, disk
    <3>2. Admit(r) \/ StartRunning(r) \/ UpdateWrite(r)
      BY <3>1 DEF Writes, AssembleCorpus, ParseAttributes, ClusterAttributes, SealTriage,
                  RecordDecisions, WriteCandidates, LogAppend, WriteOutput
    <3>3. ~Admit(r)
      BY <2>0 DEF Admit, Orphan
    <3>4. n = Run(r) /\ ~Builds(r)
      BY <2>0, <3>2, <3>3 DEF StartRunning, UpdateWrite, WriteManifest, Orphan
    <3>5. UpdateWrite(r) /\ pc[r] # "await"
      BY <3>2, <3>3, <3>4, CreateBuilds DEF StartRunning, BuildLabels
    <3> QED BY <2>0, <3>4, <3>5 DEF UpdateWrite, WriteManifest, Updates, Update, UpdateLabels,
                               EInv, Evidence, Checked, Orphan
  <2> QED BY <2>1, <2>2, <2>3, StepsKnown DEF IInv
<1> QED BY <1>1, Evident, PTL DEF Spec, OrphanOnlyPausesAndResumes

(* The run store implements the lifecycle: a run is opened, sealed,        *)
(* ratified and synthesised in this order, one step at a time, and loses   *)
(* none of it, whatever requests, crashes, drifts and failures interleave. *)
THEOREM Refinement == Spec => ImplementsLifecycle
<1>1. Init => Lifecycle!Init
  BY DEF Init, Lifecycle!Init, Phase
<1>2. IInv /\ EInv /\ [Next]_vars => [Lifecycle!Next]_[n \in Runs |-> Phase(n)]
  <2> SUFFICES ASSUME IInv, EInv, [Next]_vars
               PROVE  [Lifecycle!Next]_[n \in Runs |-> Phase(n)]
    OBVIOUS
  <2>1. CASE \A n \in Runs : Phase(n)' = Phase(n)
    BY <2>1
  <2>2. ASSUME NEW r \in Requests, Writes(r)
        PROVE  [Lifecycle!Next]_[n \in Runs |-> Phase(n)]
    <3>1. PICK n \in Runs :
             /\ \A m \in Runs \ {n} : Phase(m)' = Phase(m)
             /\ <<Phase(n), Phase(n)'>> \in
                   {<<"absent", "opened">>, <<"opened", "sealed">>, <<"sealed", "ratified">>,
                    <<"ratified", "synthesised">>}
                \/ Phase(n)' = Phase(n)
      BY <2>2, PhaseStep
    <3>2. ASSUME NEW from, NEW to, Phase(n) = from, Phase(n)' = to
          PROVE  Lifecycle!Advance(n, from, to)
      <4> DEFINE p == [m \in Runs |-> Phase(m)]
                 next == [m \in Runs |-> Phase(m)']
      <4>1. next = [p EXCEPT ![n] = to]
        BY <3>1, <3>2
      <4> QED BY <3>2, <4>1 DEF Lifecycle!Advance
    <3>3. CASE Phase(n)' = Phase(n)
      BY <2>1, <3>1, <3>3
    <3>4. CASE Phase(n) = "absent" /\ Phase(n)' = "opened"
      BY <3>2, <3>4 DEF Lifecycle!Next, Lifecycle!Open
    <3>5. CASE Phase(n) = "opened" /\ Phase(n)' = "sealed"
      BY <3>2, <3>5 DEF Lifecycle!Next, Lifecycle!Seal
    <3>6. CASE Phase(n) = "sealed" /\ Phase(n)' = "ratified"
      BY <3>2, <3>6 DEF Lifecycle!Next, Lifecycle!Ratify
    <3>7. CASE Phase(n) = "ratified" /\ Phase(n)' = "synthesised"
      BY <3>2, <3>7 DEF Lifecycle!Next, Lifecycle!Synthesise
    <3> QED BY <3>1, <3>3, <3>4, <3>5, <3>6, <3>7
  <2>3. CASE Quiet \/ \E r \in Requests : Moves(r)
    <3>1. UNCHANGED <<manifest, files, sealed, decisions>>
      BY <2>3, MovesKeepDisk DEF Quiet, disk
    <3> QED BY <2>1, <3>1 DEF Phase
  <2>4. ASSUME NEW m \in Runs, DriftCorpus(m)
        PROVE  [Lifecycle!Next]_[n \in Runs |-> Phase(n)]
    <3>1. /\ UNCHANGED <<files, sealed, decisions>>
          /\ manifest \in [Runs -> Manifests] /\ manifest[m].hash = "corpus"
          /\ manifest' = [manifest EXCEPT ![m] = [manifest[m] EXCEPT !.hash = "moved"]]
      BY <2>4 DEF DriftCorpus, IInv, TypeOK
    <3>2. \A n \in Runs : manifest'[n] # Absent <=> manifest[n] # Absent
      BY <3>1 DEF Manifests, Absent
    <3> QED BY <2>1, <3>1, <3>2 DEF Phase
  <2> QED BY <2>2, <2>3, <2>4, StepsKnown DEF IInv, Busy
<1> QED BY <1>1, <1>2, Evident, PTL DEF Spec, ImplementsLifecycle, Lifecycle!Spec

(* The journal accounts for the run: what the store holds was journalled   *)
(* before, also when crashes and failed requests left the run half way.    *)
THEOREM JournalComplete == Spec => []JournalAccountsForStore
<1>1. Init => RInv
  BY DEF Init, RInv, JournalAccountsForStore, Recorded, Builds, Absent
<1>2. RInv => JournalAccountsForStore
  BY DEF RInv
<1> QED BY <1>1, <1>2, RInvStep, Invariance, PTL DEF Spec

-----------------------------------------------------------------------------
(* What the conflict check and the idempotency store are worth: they look  *)
(* before a create and are told after it, so creates in flight together    *)
(* get past them, and only those.                                          *)

(* A thread belongs to the server that is up, only an answered request has *)
(* a reply, and a create that has its run has stored it.                   *)
Stations ==
    /\ boot \in [Requests -> Nat]
    /\ \A r \in Requests :
          /\ pc[r] # "done" => reply[r] = NoReply /\ boot[r] = restarts
          /\ boot[r] <= restarts
          /\ Made(r) => manifest[Run(r)] # Absent

(* The history remembers what it should. *)
Remembered ==
    /\ Meeting \subseteq met /\ Idle \subseteq idled
    /\ \A pair \in met :
          /\ pair \in Requests \X Requests /\ <<pair[2], pair[1]>> \in met
          /\ pc[pair[1]] # "idle"

Fresh == Active \ idled

(* A create in its conflict check has still to read the manifest of every  *)
(* run that was active from the start and whose create it never met.       *)
Looking ==
    \A q, r \in Requests :
        q # r /\ Made(q) /\ Run(q) \in Fresh /\ <<q, r>> \notin met
            => /\ pc[r] = "scan" => Run(q) \in unread[r]
               /\ pc[r] # "admit"

(* A keyed create past the look-up that never met a create of its key      *)
(* still finds nothing stored under it, and its answer is stored.          *)
Keyed(r) == call[r].op = "create" /\ call[r].key # NoKey /\ ~Rivalled(r)
Replayed(r) ==
    Keyed(r) =>
        /\ InFlight(r) /\ pc[r] # "look" => cached[NoRun][call[r].key] = NoReply
        /\ reply[r].status = "201" /\ boot[r] = restarts
              => /\ cached[NoRun][call[r].key] # NoReply
                 /\ cached[NoRun][call[r].key].run = reply[r].run

DInv == /\ Stations /\ Remembered /\ Looking /\ ConflictChecked
        /\ (\A r \in Requests : Replayed(r)) /\ ReplayedCreateIsOneRun

-----------------------------------------------------------------------------
(* The steps, as the creates see them. *)

Others(r) ==
    \A q \in Requests \ {r} : /\ pc'[q] = pc[q] /\ call'[q] = call[q]
                              /\ reply'[q] = reply[q] /\ unread'[q] = unread[q]

(* What a step of r does to the threads: others stay where they are, r     *)
(* keeps its call until it is given a run nobody has, is answered when it  *)
(* is done, and leaves no active run of its listing unread.                *)
Steps(r) ==
    /\ InFlight(r) /\ UNCHANGED bounds /\ Others(r)
    /\ \/ call' = call
       \/ /\ pc[r] = "admit" /\ pc'[r] = "S1"
          /\ \E n \in Runs : manifest[n] = Absent /\ call'[r] = [call[r] EXCEPT !.run = n]
    /\ pc'[r] \notin {"idle", "look"}
    /\ pc'[r] # "done" => reply' = reply
    /\ pc'[r] = "scan" =>
          \/ pc[r] = "list" /\ \A n \in Active : n \in unread'[r]
          \/ pc[r] = "scan" /\ \A n \in Active : n \in unread[r] => n \in unread'[r]
    /\ pc'[r] = "admit" => pc[r] = "scan" /\ unread[r] = {}

(* Every step of a thread is one of these. *)
LEMMA ServeSteps ==
    ASSUME TypeOK, Serving, NEW r \in Requests, Serve(r)
    PROVE  Steps(r)
<1> USE DEF TypeOK, Serving, Steps, Others, InFlight, Go, Run, BuildLabels, LockedLabels, LogLabels,
            UpdateLabels, disk, locks, memory, locals, client, bounds
<1>1. CASE CreateStep(r)
  <2>9. CASE ListRuns(r)  BY <2>9 DEF ListRuns, Active, ActiveStates, Absent
  <2>1. CASE Scan(r)  BY <2>1 DEF Scan, ReadRun, Finish
  <2>2. CASE Admit(r)  BY <2>2 DEF Admit
  <2>3. CASE AssembleCorpus(r)  BY <2>3 DEF AssembleCorpus, WriteOutput
  <2>4. CASE StartRunning(r)  BY <2>4 DEF StartRunning, WriteManifest
  <2>5. CASE ParseAttributes(r)  BY <2>5 DEF ParseAttributes, WriteOutput
  <2>6. CASE ClusterAttributes(r)  BY <2>6 DEF ClusterAttributes, WriteOutput
  <2>7. CASE SealTriage(r)  BY <2>7 DEF SealTriage
  <2>8. CASE CreateFails(r)  BY <2>8 DEF CreateFails, Finish
  <2> QED BY <1>1, <2>1, <2>2, <2>3, <2>4, <2>5, <2>6, <2>7, <2>8, <2>9 DEF CreateStep
<1>2. CASE LockedStep(r)
  <2>1. CASE ResumeRun(r)  BY <2>1 DEF ResumeRun
  <2>2. CASE LeaveLock(r)  BY <2>2 DEF LeaveLock, Finish, Release
  <2>3. CASE NotSealed(r)  BY <2>3 DEF NotSealed, Fail, Finish, Release
  <2>4. CASE CorpusDrift(r)  BY <2>4 DEF CorpusDrift, Fail, Finish, Release
  <2>5. CASE CheckPasses(r)  BY <2>5 DEF CheckPasses
  <2>6. CASE RecordDecisions(r)  BY <2>6 DEF RecordDecisions
  <2>7. CASE ResumeAfterCheckpoint(r)
    BY <2>7 DEF ResumeAfterCheckpoint, Fail, Finish, Release
  <2>8. CASE Synthesise(r)  BY <2>8 DEF Synthesise
  <2>9. CASE SynthesisFails(r)  BY <2>9 DEF SynthesisFails, Fail, Finish, Release
  <2>10. CASE SynthesisEnds(r)  BY <2>10 DEF SynthesisEnds
  <2>11. CASE WriteCandidates(r)  BY <2>11 DEF WriteCandidates, WriteOutput
  <2> QED BY <1>2, <2>1, <2>2, <2>3, <2>4, <2>5, <2>6, <2>7, <2>8, <2>9, <2>10,
             <2>11 DEF LockedStep
<1>3. CASE SharedStep(r)
  <2>1. CASE Look(r)  BY <2>1 DEF Look, Finish
  <2>2. CASE Remember(r)  BY <2>2 DEF Remember, Finish
  <2>3. CASE AcquireLock(r)  BY <2>3 DEF AcquireLock, OnRun
  <2>4. CASE LogRead(r)  BY <2>4 DEF LogRead
  <2>5. CASE LogAppend(r)  BY <2>5 DEF LogAppend, Logs, Log
  <2>6. CASE UpdateRead(r)  BY <2>6 DEF UpdateRead
  <2>7. CASE UpdateWrite(r)  BY <2>7 DEF UpdateWrite, WriteManifest, Updates, Update
  <2>8. CASE GetLock(r)  BY <2>8 DEF GetLock
  <2>9. CASE MakeLock(r)  BY <2>9 DEF MakeLock
  <2> QED BY <1>3, <2>1, <2>2, <2>3, <2>4, <2>5, <2>6, <2>7, <2>8, <2>9 DEF SharedStep
<1> QED BY <1>1, <1>2, <1>3 DEF Serve

(* The kind and the key of a call never change. *)
LEMMA CallKept ==
    ASSUME TypeOK, NEW r \in Requests, Steps(r), NEW q \in Requests
    PROVE  call'[q].op = call[q].op /\ call'[q].key = call[q].key
<1>1. CASE call' = call \/ q # r
  BY <1>1 DEF Steps, Others
<1>2. CASE q = r /\ \E n \in Runs : call'[r] = [call[r] EXCEPT !.run = n]
  <2>1. call[r] \in Calls
    BY DEF TypeOK
  <2> QED BY <1>2, <2>1 DEF Calls
<1> QED BY <1>1, <1>2 DEF Steps

(* The stored replies change only when a handler remembers its own, and a  *)
(* create is answered 201 by that or by the look-up.                       *)
LEMMA CreatedStored ==
    ASSUME TypeOK, Serving, NEW r \in Requests, Serve(r)
    PROVE  \/ /\ UNCHANGED cached
              /\ reply'[r].status = "201" /\ call[r].op = "create" =>
                    \/ reply' = reply
                    \/ pc[r] = "look" /\ call[r].key # NoKey
                          /\ reply'[r] = cached[NoRun][call[r].key] /\ reply'[r] # NoReply
              /\ pc[r] = "look" /\ call[r].op = "create" /\ call[r].key # NoKey =>
                    pc'[r] = "done" \/ cached[NoRun][call[r].key] = NoReply
           \/ Remember(r)
<1> USE DEF TypeOK, Serving, Go, disk, locks, memory, locals, client, bounds
<1>1. CASE CreateStep(r)
  <2>9. CASE ListRuns(r)  BY <2>9 DEF ListRuns
  <2>1. CASE Scan(r)  BY <2>1 DEF Scan, ReadRun, Finish, Error
  <2>2. CASE Admit(r)  BY <2>2 DEF Admit, Absent
  <2>3. CASE AssembleCorpus(r)  BY <2>3 DEF AssembleCorpus, WriteOutput
  <2>4. CASE StartRunning(r)  BY <2>4 DEF StartRunning, WriteManifest
  <2>5. CASE ParseAttributes(r)  BY <2>5 DEF ParseAttributes, WriteOutput
  <2>6. CASE ClusterAttributes(r)  BY <2>6 DEF ClusterAttributes, WriteOutput
  <2>7. CASE SealTriage(r)  BY <2>7 DEF SealTriage
  <2>8. CASE CreateFails(r)  BY <2>8 DEF CreateFails, Finish, Error
  <2> QED BY <1>1, <2>1, <2>2, <2>3, <2>4, <2>5, <2>6, <2>7, <2>8, <2>9 DEF CreateStep
<1>2. CASE LockedStep(r)
  <2>1. CASE ResumeRun(r)  BY <2>1 DEF ResumeRun
  <2>2. CASE LeaveLock(r)  BY <2>2 DEF LeaveLock, Finish, Release, LockedLabels, OnRun
  <2>3. CASE NotSealed(r)  BY <2>3 DEF NotSealed, Fail, Finish, Release, Error
  <2>4. CASE CorpusDrift(r)  BY <2>4 DEF CorpusDrift, Fail, Finish, Release, Error
  <2>5. CASE CheckPasses(r)  BY <2>5 DEF CheckPasses
  <2>6. CASE RecordDecisions(r)  BY <2>6 DEF RecordDecisions
  <2>7. CASE ResumeAfterCheckpoint(r)
    BY <2>7 DEF ResumeAfterCheckpoint, Fail, Finish, Release, Error
  <2>8. CASE Synthesise(r)  BY <2>8 DEF Synthesise
  <2>9. CASE SynthesisFails(r)  BY <2>9 DEF SynthesisFails, Fail, Finish, Release, Error
  <2>10. CASE SynthesisEnds(r)  BY <2>10 DEF SynthesisEnds
  <2>11. CASE WriteCandidates(r)  BY <2>11 DEF WriteCandidates, WriteOutput
  <2> QED BY <1>2, <2>1, <2>2, <2>3, <2>4, <2>5, <2>6, <2>7, <2>8, <2>9, <2>10,
             <2>11 DEF LockedStep
<1>3. CASE SharedStep(r)
  <2>1. CASE Look(r)  BY <2>1 DEF Look, Finish, Route
  <2>2. CASE Remember(r)  BY <2>2 DEF Remember
  <2>3. CASE AcquireLock(r)  BY <2>3 DEF AcquireLock
  <2>4. CASE LogRead(r)  BY <2>4 DEF LogRead, LogLabels
  <2>5. CASE LogAppend(r)  BY <2>5 DEF LogAppend, LogLabels
  <2>6. CASE UpdateRead(r)  BY <2>6 DEF UpdateRead, UpdateLabels
  <2>7. CASE UpdateWrite(r)  BY <2>7 DEF UpdateWrite, UpdateLabels, WriteManifest
  <2>8. CASE GetLock(r)  BY <2>8 DEF GetLock
  <2>9. CASE MakeLock(r)  BY <2>9 DEF MakeLock
  <2> QED BY <1>3, <2>1, <2>2, <2>3, <2>4, <2>5, <2>6, <2>7, <2>8, <2>9 DEF SharedStep
<1> QED BY <1>1, <1>2, <1>3 DEF Serve


-----------------------------------------------------------------------------
(* The invariant is kept. *)

(* A run that is stored stays stored. *)
LEMMA StoredStays ==
    ASSUME TypeOK, [Next]_vars, NEW n \in Runs, manifest[n] # Absent
    PROVE  manifest'[n] # Absent
<1> USE DEF TypeOK, Absent
<1>1. CASE Quiet
  BY <1>1 DEF Quiet, disk
<1>2. CASE \E r \in Requests : Moves(r)
  BY <1>2, MovesKeepDisk DEF disk
<1>3. ASSUME NEW r \in Requests, Writes(r) PROVE manifest'[n] # Absent
  <2>1. CASE Admit(r)  BY <2>1 DEF Admit
  <2>2. CASE AssembleCorpus(r)  BY <2>2 DEF AssembleCorpus, WriteOutput
  <2>3. CASE StartRunning(r)  BY <2>3 DEF StartRunning, WriteManifest
  <2>4. CASE ParseAttributes(r)  BY <2>4 DEF ParseAttributes, WriteOutput
  <2>5. CASE ClusterAttributes(r)  BY <2>5 DEF ClusterAttributes, WriteOutput
  <2>6. CASE SealTriage(r)  BY <2>6 DEF SealTriage
  <2>7. CASE RecordDecisions(r)  BY <2>7 DEF RecordDecisions
  <2>8. CASE WriteCandidates(r)  BY <2>8 DEF WriteCandidates, WriteOutput
  <2>9. CASE LogAppend(r)  BY <2>9 DEF LogAppend
  <2>10. CASE UpdateWrite(r)  BY <2>10, UpdatesKnown DEF UpdateWrite, WriteManifest
  <2> QED BY <1>3, <2>1, <2>2, <2>3, <2>4, <2>5, <2>6, <2>7, <2>8, <2>9, <2>10 DEF Writes
<1>4. ASSUME NEW m \in Runs, DriftCorpus(m) PROVE manifest'[n] # Absent
  BY <1>4 DEF DriftCorpus, Manifests
<1> QED BY <1>1, <1>2, <1>3, <1>4, StepsKnown DEF Busy

Admits(r) ==
    /\ pc[r] = "admit" /\ pc'[r] = "S1" /\ call'[r].op = "create"
    /\ Run(r)' \in Runs /\ manifest[Run(r)'] = Absent
    /\ \A q \in Requests \ {r} : pc'[q] = pc[q] /\ call'[q] = call[q]
Reads(r) ==
    \/ pc[r] = "list" /\ \A n \in Active : n \in unread'[r]
    \/ pc[r] = "scan" /\ \A n \in Active : n \in unread[r] => n \in unread'[r]

(* A request is sent once, to the look-up if it creates; the rest stays. *)
LEMMA Sent ==
    ASSUME TypeOK, NEW q \in Requests, SendRequest(q)
    PROVE  /\ pc[q] = "idle" /\ pc'[q] \in {"look", "lock"} /\ ~Made(q)'
           /\ pc'[q] = "look" \/ call'[q].op # "create"
           /\ \A p \in Requests \ {q} : /\ pc'[p] = pc[p] /\ call'[p] = call[p]
                                        /\ unread'[p] = unread[p]
           /\ UNCHANGED <<cached, reply, restarts>>
<1> USE RunControlAssumption DEF Send, Go, TypeOK, memory, locals, bounds, NoCall, Made, Run
<1>1. CASE SendCreate(q)  BY <1>1 DEF SendCreate
<1>2. CASE SendPauseOrResume(q)  BY <1>2 DEF SendPauseOrResume
<1>3. CASE SendDecisions(q)  BY <1>3 DEF SendDecisions
<1> QED BY <1>1, <1>2, <1>3 DEF SendRequest

(* What any step does to a request. *)
LEMMA RequestMoves ==
    ASSUME TypeOK, Serving, [Next]_vars, NEW r \in Requests
    PROVE  /\ pc'[r] = "scan" => Reads(r)
           /\ pc'[r] = "admit" => pc[r] = "admit" \/ (pc[r] = "scan" /\ unread[r] = {})
           /\ Made(r)' => (Made(r) /\ Run(r)' = Run(r)) \/ Admits(r)
           /\ pc[r] # "idle" => /\ pc'[r] # "idle"
                                /\ call'[r].op = call[r].op /\ call'[r].key = call[r].key
<1>2. ASSUME NEW q \in Requests, SendRequest(q)
      PROVE  /\ pc'[r] = "scan" => Reads(r)
             /\ pc'[r] = "admit" => pc[r] = "admit"
             /\ Made(r)' => Made(r) /\ Run(r)' = Run(r)
             /\ pc[r] # "idle" => /\ pc'[r] # "idle"
                                  /\ call'[r].op = call[r].op /\ call'[r].key = call[r].key
  BY <1>2, Sent DEF Made, Run, Reads
<1>3. ASSUME NEW q \in Requests, Serve(q)
      PROVE  /\ pc'[r] = "scan" => Reads(r)
             /\ pc'[r] = "admit" => pc[r] = "admit" \/ (pc[r] = "scan" /\ unread[r] = {})
             /\ Made(r)' => (Made(r) /\ Run(r)' = Run(r)) \/ Admits(r)
             /\ pc[r] # "idle" => /\ pc'[r] # "idle"
                                  /\ call'[r].op = call[r].op /\ call'[r].key = call[r].key
  <2>1. Steps(q)
    BY <1>3, ServeSteps
  <2>2. call'[r].op = call[r].op /\ call'[r].key = call[r].key
    BY <2>1, CallKept
  <2>3. /\ pc'[r] = "scan" => Reads(r)
        /\ pc'[r] = "admit" => pc[r] = "admit" \/ (pc[r] = "scan" /\ unread[r] = {})
        /\ pc[r] # "idle" => pc'[r] # "idle"
    BY <2>1 DEF Steps, Others, Reads
  <2>4. CASE call'[r] = call[r]
    BY <2>2, <2>3, <2>4 DEF Made, Run
  <2>5. CASE call'[r] # call[r]
    <3>1. q = r
      BY <2>1, <2>5 DEF Steps, Others
    <3>2. PICK n \in Runs : manifest[n] = Absent /\ call'[r] = [call[r] EXCEPT !.run = n]
      BY <2>1, <2>5, <3>1 DEF Steps
    <3>3. Run(r)' = n
      BY <3>2 DEF Run, TypeOK, Calls
    <3>4. pc[r] = "admit" /\ pc'[r] = "S1" /\ call[r].op = "create"
      BY <2>1, <2>5, <3>1 DEF Steps, Serving
    <3>5. Admits(r)
      BY <2>1, <2>2, <3>1, <3>2, <3>3, <3>4 DEF Admits, Steps, Others
    <3> QED BY <2>2, <2>3, <3>5
  <2> QED BY <2>4, <2>5
<1>4. ASSUME Restart
      PROVE  /\ pc'[r] \notin {"scan", "admit"} /\ (pc[r] # "idle" => pc'[r] # "idle")
             /\ call' = call
  BY <1>4 DEF Restart, InFlight
<1>5. ASSUME UNCHANGED <<pc, call, unread>>
      PROVE  /\ pc'[r] = "scan" => Reads(r)
             /\ pc'[r] = "admit" => pc[r] = "admit"
             /\ Made(r)' => Made(r) /\ Run(r)' = Run(r)
             /\ pc[r] # "idle" => /\ pc'[r] # "idle"
                                  /\ call'[r].op = call[r].op /\ call'[r].key = call[r].key
  BY <1>5 DEF Made, Run, Reads
<1>6. ASSUME (\E n \in Runs : FindOrphan(n) \/ DriftCorpus(n)) \/ UNCHANGED vars
      PROVE  UNCHANGED <<pc, call, unread>>
  BY <1>6 DEF FindOrphan, DriftCorpus, vars, locals, client
<1> QED BY <1>2, <1>3, <1>4, <1>5, <1>6 DEF Next, Environment, Made, Run

(* A step of RunHistory is one of RunControl, and the history grows. *)
LEMMA HistoryGrows ==
    ASSUME [HNext]_<<vars, history>>, Remembered, Stations
    PROVE  /\ [Next]_vars
           /\ met \subseteq met' /\ idled \subseteq idled'
           /\ Meeting' \subseteq met' /\ Idle' \subseteq idled'
           /\ met' \subseteq met \union Meeting'
           /\ \A r \in Requests :
                 boot'[r] = IF pc[r] = "idle" THEN restarts' ELSE boot[r]
           /\ boot' = [r \in Requests |-> IF pc[r] = "idle" THEN restarts' ELSE boot[r]]
<1>1. CASE HNext
  BY <1>1 DEF HNext, Remembers
<1>2. CASE UNCHANGED <<vars, history>>
  <2>1. Meeting' = Meeting /\ Idle' = Idle
    BY <1>2 DEF vars, client, disk, Meeting, Creating, InFlight, Idle, Active
  <2>2. boot' = boot /\ pc' = pc /\ restarts' = restarts /\ met' = met /\ idled' = idled
    BY <1>2 DEF vars, history, bounds
  <2>3. \A r \in Requests : pc[r] = "idle" => boot[r] = restarts
    BY DEF Stations
  <2>4. boot = [r \in Requests |-> boot[r]]
    BY DEF Stations
  <2>5. boot' = [r \in Requests |-> IF pc[r] = "idle" THEN restarts' ELSE boot[r]]
    BY <2>2, <2>3, <2>4
  <2> QED BY <1>2, <2>1, <2>2, <2>5 DEF Remembered
<1> QED BY <1>1, <1>2

(* A request that is not done has the reply and the server it had. *)
LEMMA RepliesKept ==
    ASSUME TypeOK, Serving, [Next]_vars
    PROVE  /\ restarts' = restarts \/ restarts' = restarts + 1
           /\ \A r \in Requests : pc'[r] # "done" =>
                 /\ pc[r] # "done" /\ reply'[r] = reply[r]
                 /\ pc[r] = "idle" \/ restarts' = restarts
           /\ \A r \in Requests : reply'[r].status = "201" =>
                 reply'[r] = reply[r] \/ (pc[r] # "done" /\ restarts' = restarts)
<1>1. ASSUME NEW q \in Requests, SendRequest(q)
      PROVE  /\ UNCHANGED <<reply, restarts>>
             /\ \A r \in Requests : pc'[r] # "done" => pc[r] # "done"
  BY <1>1, Sent
<1>2. ASSUME NEW q \in Requests, Serve(q)
      PROVE  /\ UNCHANGED restarts
             /\ \A r \in Requests : pc'[r] # "done" => pc[r] # "done" /\ reply'[r] = reply[r]
             /\ \A r \in Requests : reply'[r] = reply[r] \/ pc[r] # "done"
  <2>1. Steps(q)
    BY <1>2, ServeSteps
  <2> QED BY <2>1 DEF Steps, Others, InFlight, bounds
<1>3. ASSUME Restart
      PROVE  /\ restarts' = restarts + 1
             /\ \A r \in Requests : pc'[r] # "done" => pc[r] = "idle" /\ reply'[r] = reply[r]
             /\ \A r \in Requests : reply'[r].status = "201" => reply'[r] = reply[r]
  BY <1>3 DEF Restart, InFlight, Error, TypeOK
<1>4. ASSUME (\E n \in Runs : FindOrphan(n) \/ DriftCorpus(n)) \/ UNCHANGED vars
      PROVE  UNCHANGED <<pc, reply, restarts>>
  BY <1>4 DEF FindOrphan, DriftCorpus, vars, client, bounds
<1> QED BY <1>1, <1>2, <1>3, <1>4 DEF Next, Environment

(* Every step remembers, ... *)
LEMMA RememberedStep ==
    ASSUME TypeOK, Serving, Stations, Remembered, [HNext]_<<vars, history>>
    PROVE  Remembered'
<1>1. /\ [Next]_vars
      /\ met \subseteq met' /\ Meeting' \subseteq met' /\ Idle' \subseteq idled'
      /\ met' \subseteq met \union Meeting'
  BY HistoryGrows
<1>2. \A r \in Requests : pc[r] # "idle" => pc'[r] # "idle"
  BY <1>1, RequestMoves
<1>3. ASSUME NEW pair \in met'
      PROVE  /\ pair \in Requests \X Requests /\ <<pair[2], pair[1]>> \in met'
             /\ pc'[pair[1]] # "idle"
  <2>1. CASE pair \in met
    BY <1>1, <1>2, <2>1 DEF Remembered
  <2>2. CASE pair \in Meeting'
    <3>1. pair \in Requests \X Requests /\ pc'[pair[1]] # "idle"
      BY <2>2 DEF Meeting, Creating, InFlight
    <3>2. <<pair[2], pair[1]>> \in Meeting'
      BY <2>2 DEF Meeting
    <3> QED BY <1>1, <3>1, <3>2
  <2> QED BY <1>1, <2>1, <2>2
<1> QED BY <1>1, <1>3 DEF Remembered

(* ... leaves the requests at their stations, ... *)
LEMMA StationsStep ==
    ASSUME TypeOK, Serving, Stations, Remembered, [HNext]_<<vars, history>>, Ownership'
    PROVE  Stations'
<1>1. /\ [Next]_vars
      /\ \A r \in Requests : boot'[r] = IF pc[r] = "idle" THEN restarts' ELSE boot[r]
      /\ boot' = [r \in Requests |-> IF pc[r] = "idle" THEN restarts' ELSE boot[r]]
  BY HistoryGrows
<1>2. ASSUME NEW r \in Requests, Made(r)' PROVE manifest'[Run(r)'] # Absent
  <2>1. CASE Made(r) /\ Run(r)' = Run(r)
    BY <1>1, <2>1, StoredStays DEF Stations, Made
  <2>2. CASE Admits(r)
    <3>1. Builds(r)'
      BY <2>2 DEF Admits, Builds, BuildLabels
    <3> QED BY <3>1 DEF Ownership
  <2> QED BY <1>1, <1>2, <2>1, <2>2, RequestMoves
<1>3. restarts \in Nat /\ restarts' \in Nat /\ restarts <= restarts'
      /\ boot \in [Requests -> Nat] /\ boot' \in [Requests -> Nat]
  <2>1. restarts \in Nat /\ boot \in [Requests -> Nat]
    BY DEF TypeOK, Stations
  <2>2. restarts' = restarts \/ restarts' = restarts + 1
    BY <1>1, RepliesKept
  <2>3. restarts' \in Nat /\ restarts <= restarts'
    BY <2>1, <2>2
  <2> QED BY <1>1, <2>1, <2>3
<1>4. ASSUME NEW r \in Requests
      PROVE  /\ pc'[r] # "done" => reply'[r] = NoReply /\ boot'[r] = restarts'
             /\ boot'[r] <= restarts'
  <2>1. boot'[r] <= restarts'
    BY <1>1, <1>3 DEF Stations
  <2>2. pc'[r] # "done" =>
           /\ pc[r] # "done" /\ reply'[r] = reply[r]
           /\ pc[r] = "idle" \/ restarts' = restarts
    BY <1>1, RepliesKept
  <2> QED BY <1>1, <2>1, <2>2 DEF Stations
<1> QED BY <1>2, <1>3, <1>4 DEF Stations

(* ... leaves a create with every run to read it must not miss, ... *)
LEMMA LookingStep ==
    ASSUME TypeOK, Serving, Stations, Remembered, Looking, ConflictChecked,
           [HNext]_<<vars, history>>, Remembered'
    PROVE  Looking' /\ ConflictChecked'
<1>1. /\ [Next]_vars /\ met \subseteq met' /\ idled \subseteq idled'
  BY HistoryGrows
<1>2. /\ \A pair \in met : <<pair[2], pair[1]>> \in met
      /\ Meeting \subseteq met /\ Meeting' \subseteq met' /\ Idle \subseteq idled
  BY DEF Remembered
<1>3. ASSUME NEW n \in Runs, n \in Fresh', manifest[n] # Absent PROVE n \in Fresh
  BY <1>1, <1>2, <1>3 DEF Fresh, Idle
(* Every create that has its run in a fresh run had it before the step, or *)
(* is the only one in flight that is given one.                            *)
<1>4. ASSUME NEW q \in Requests, Made(q)', Run(q)' \in Fresh'
      PROVE  (Made(q) /\ Run(q)' = Run(q) /\ Run(q) \in Fresh) \/ Admits(q)
  <2>1. CASE Made(q) /\ Run(q)' = Run(q)
    BY <1>3, <1>4, <2>1 DEF Stations, Made
  <2> QED BY <1>1, <1>4, <2>1, RequestMoves
<1>5. ASSUME NEW q \in Requests, NEW r \in Requests, q # r, Admits(q), pc[r] \in {"scan", "admit"}
      PROVE  <<q, r>> \in met'
  <2>1. call[r].op = "create" /\ call'[r] = call[r] /\ pc'[r] = pc[r]
    BY <1>5 DEF Serving, Admits
  <2>2. Creating(q)' /\ Creating(r)'
    BY <1>5, <2>1 DEF Admits, Creating, InFlight
  <2> QED BY <1>2, <1>5, <2>2 DEF Meeting
<1>6. ASSUME NEW q \in Requests, NEW r \in Requests, q # r,
             Made(q)', Run(q)' \in Fresh', <<q, r>> \notin met'
      PROVE  /\ pc'[r] = "scan" => Run(q)' \in unread'[r]
             /\ pc'[r] # "admit"
             /\ Made(r)' => Run(r)' \notin Fresh'
  <2>0. <<q, r>> \notin met /\ <<r, q>> \notin met
    BY <1>1, <1>2, <1>6
  <2>1. CASE Admits(q)
    <3>1. pc'[r] = pc[r] /\ pc[r] \notin {"scan", "admit"}
      BY <1>5, <1>6, <2>1 DEF Admits
    <3>2. ASSUME Made(r)', Run(r)' \in Fresh' PROVE FALSE
      <4>1. Made(r) /\ Run(r) \in Fresh
        BY <1>4, <3>1, <3>2 DEF Admits
      <4> QED BY <1>6, <2>0, <2>1, <4>1 DEF Looking, Admits
    <3> QED BY <3>1, <3>2
  <2>2. CASE Made(q) /\ Run(q)' = Run(q) /\ Run(q) \in Fresh
    <3>1. /\ pc[r] = "scan" => Run(q) \in unread[r]
          /\ pc[r] # "admit"
          /\ ~(Made(r) /\ Run(r) \in Fresh)
      BY <1>6, <2>0, <2>2 DEF Looking, ConflictChecked, Fresh
    <3>2. pc'[r] = "scan" => Run(q) \in unread'[r]
      BY <1>1, <2>2, <3>1, RequestMoves DEF Reads, Fresh
    <3>3. pc'[r] # "admit"
      <4>1. Run(q) \notin {}
        OBVIOUS
      <4> QED BY <1>1, <3>1, <4>1, RequestMoves
    <3>4. Made(r)' => Run(r)' \notin Fresh'
      BY <1>4, <3>1 DEF Admits
    <3> QED BY <2>2, <3>2, <3>3, <3>4
  <2> QED BY <1>4, <1>6, <2>1, <2>2
<1>7. Looking'
  BY <1>6 DEF Looking
<1>8. ConflictChecked'
  <2> SUFFICES ASSUME NEW q \in Requests, NEW r \in Requests, q # r, Made(q)', Made(r)',
                      Run(q)' \in Fresh', Run(r)' \in Fresh', <<q, r>> \notin met'
               PROVE  FALSE
    BY DEF ConflictChecked, Fresh
  <2> QED BY <1>6
<1> QED BY <1>7, <1>8

(* A keyed create without a rival had none before. *)
LEMMA KeyedBefore ==
    ASSUME TypeOK, Serving, Stations, Remembered, [HNext]_<<vars, history>>,
           NEW r \in Requests, pc[r] # "idle", Keyed(r)'
    PROVE  Keyed(r) /\ call'[r].key = call[r].key /\ call'[r].op = call[r].op
<1>1. [Next]_vars /\ met \subseteq met'
  BY HistoryGrows
<1>2. \A q \in Requests : pc[q] # "idle" =>
          call'[q].op = call[q].op /\ call'[q].key = call[q].key
  BY <1>1, RequestMoves
<1>3. ASSUME NEW p \in Requests, <<p, r>> \in met, call[p].key = call[r].key
      PROVE  Rivalled(r)'
  <2>1. pc[p] # "idle"
    BY <1>3 DEF Remembered
  <2>2. call'[p].key = call'[r].key
    BY <1>2, <1>3, <2>1
  <2> QED BY <1>1, <1>3, <2>2 DEF Rivalled
<1> QED BY <1>2, <1>3 DEF Keyed, Rivalled

(* ... and what is answered to a key without a rival is what is stored. *)
LEMMA ReplayedStep ==
    ASSUME IInv, Stations, Remembered, \A q \in Requests : Replayed(q),
           [HNext]_<<vars, history>>, Stations', NEW r \in Requests
    PROVE  Replayed(r)'
<1> SUFFICES ASSUME Keyed(r)'
             PROVE  /\ InFlight(r)' /\ pc'[r] # "look" =>
                          cached'[NoRun][call'[r].key] = NoReply
                    /\ reply'[r].status = "201" /\ boot'[r] = restarts'
                          => /\ cached'[NoRun][call'[r].key] # NoReply
                             /\ cached'[NoRun][call'[r].key].run = reply'[r].run
  BY DEF Replayed
<1>0. TypeOK /\ Serving /\ Naming /\ Ownership
  BY DEF IInv
<1>1. /\ [Next]_vars /\ Meeting \subseteq met
      /\ boot'[r] = IF pc[r] = "idle" THEN restarts' ELSE boot[r]
  BY HistoryGrows DEF Remembered
<1>2. pc[r] # "idle" => Keyed(r) /\ call'[r].key = call[r].key /\ call'[r].op = call[r].op
  BY <1>0, KeyedBefore
(* A request that is or was not sent yet has no answer. *)
<1>3. CASE pc[r] = "idle"
  <2>1. pc'[r] \in {"idle", "look"} \/ call'[r].op # "create"
    <3>1. ASSUME NEW q \in Requests, SendRequest(q) PROVE pc'[r] \in {"idle", "look"} \/ call'[r].op # "create"
      BY <1>0, <1>3, <3>1, Sent
    <3>2. ASSUME NEW q \in Requests, Serve(q) PROVE pc'[r] \in {"idle", "look"} \/ call'[r].op # "create"
      BY <1>0, <1>3, <3>2, ServeSteps DEF Steps, Others, InFlight
    <3>3. ASSUME Restart PROVE pc'[r] \in {"idle", "look"} \/ call'[r].op # "create"
      BY <1>3, <3>3 DEF Restart, InFlight
    <3>4. ASSUME (\E n \in Runs : FindOrphan(n) \/ DriftCorpus(n)) \/ UNCHANGED vars
          PROVE  pc'[r] \in {"idle", "look"} \/ call'[r].op # "create"
      BY <1>3, <3>4 DEF FindOrphan, DriftCorpus, vars
    <3> QED BY <1>1, <3>1, <3>2, <3>3, <3>4 DEF Next, Environment
  <2>2. pc'[r] # "done" => reply'[r].status # "201"
    BY DEF Stations, NoReply
  <2> QED BY <1>3, <2>1, <2>2 DEF InFlight, Keyed
<1>4. ASSUME pc[r] # "idle", NEW q \in Requests, Serve(q) PROVE Replayed(r)'
  <2>1. Steps(q) /\ restarts' = restarts
    BY <1>0, <1>4, ServeSteps DEF Steps, bounds
  <2>2. Keyed(r) /\ Replayed(r) /\ boot'[r] = boot[r]
        /\ call'[r].key = call[r].key /\ call'[r].op = call[r].op
    BY <1>1, <1>2, <1>4
  <2>3. q # r => pc'[r] = pc[r] /\ reply'[r] = reply[r]
    BY <2>1 DEF Steps, Others
  <2> DEFINE key == call[r].key
  <2>4. key \in Keys /\ call[r].op = "create" /\ key # NoKey
    BY <1>0, <2>2 DEF Keyed, TypeOK, Calls
  <2>5. ASSUME UNCHANGED cached,
               reply'[q].status = "201" /\ call[q].op = "create" =>
                   \/ reply' = reply
                   \/ pc[q] = "look" /\ call[q].key # NoKey
                         /\ reply'[q] = cached[NoRun][call[q].key] /\ reply'[q] # NoReply,
               pc[q] = "look" /\ call[q].op = "create" /\ call[q].key # NoKey =>
                   pc'[q] = "done" \/ cached[NoRun][call[q].key] = NoReply
        PROVE  Replayed(r)'
    <3>1. CASE q = r
      <4>1. InFlight(r)' => cached'[NoRun][key] = NoReply
        BY <2>1, <2>2, <2>4, <2>5, <3>1 DEF Replayed, Steps, InFlight
      <4>2. reply'[r].status = "201" /\ boot'[r] = restarts' =>
               cached'[NoRun][key] # NoReply /\ cached'[NoRun][key].run = reply'[r].run
        BY <2>1, <2>2, <2>4, <2>5, <3>1 DEF Replayed, Steps
      <4> QED BY <2>2, <4>1, <4>2 DEF Replayed
    <3>2. CASE q # r
      BY <2>1, <2>2, <2>3, <2>5, <3>2 DEF Replayed, InFlight
    <3> QED BY <3>1, <3>2
  <2>6. ASSUME Remember(q) PROVE Replayed(r)'
    <3> DEFINE answer == Answer(q, IF call[q].op = "create" THEN "201" ELSE "202")
    <3>1. /\ cached' = IF call[q].key # NoKey /\ cached[Route(q)][call[q].key] = NoReply
                       THEN [cached EXCEPT ![Route(q)][call[q].key] = answer]
                       ELSE cached
          /\ reply' = [reply EXCEPT ![q] = answer] /\ pc'[q] = "done"
          /\ answer # NoReply /\ pc[q] = "remember"
      BY <1>0, <2>6 DEF Remember, Finish, Go, Answer, NoReply, TypeOK
    <3>2. cached \in [Runs \union {NoRun} -> [Keys -> Replies]] /\ call[q].key \in Keys \union {NoKey}
      BY <1>0 DEF TypeOK, Calls
    <3>3. reply'[q] = answer
      BY <1>0, <3>1 DEF TypeOK
    <3>4. call[q].op = "create" => answer.status = "201"
      BY DEF Answer
    <3> HIDE DEF answer
    <3>5. Route(q) = IF call[q].op = "create" THEN NoRun ELSE Run(q)
      BY DEF Route
    <3>6. call[q].op # "create" => Route(q) \in Runs
      BY <1>0, <3>1, <3>5, RunKnown DEF BuildLabels
    <3>7. cached'[NoRun][key] # cached[NoRun][key] =>
             /\ call[q].op = "create" /\ call[q].key = key
             /\ cached[NoRun][key] = NoReply /\ cached'[NoRun][key] = answer
      BY <2>4, <3>1, <3>2, <3>5, <3>6, RunControlAssumption
    <3>8. CASE q = r
      <4>1. cached[NoRun][key] = NoReply
        BY <2>2, <3>1, <3>8 DEF Replayed, InFlight
      <4>2. cached'[NoRun][key] = answer
        BY <2>4, <3>1, <3>2, <3>5, <3>8, <4>1
      <4> QED BY <2>2, <3>1, <3>3, <3>8, <4>2 DEF Replayed, InFlight
    <3>9. CASE q # r
      <4>1. InFlight(r) => cached'[NoRun][key] = cached[NoRun][key]
        <5>1. ASSUME InFlight(r), call[q].op = "create", call[q].key = key PROVE FALSE
          <6>1. Creating(q) /\ Creating(r)
            BY <2>4, <3>1, <5>1 DEF Creating, InFlight
          <6>2. <<q, r>> \in met
            BY <1>1, <3>9, <6>1 DEF Meeting
          <6> QED BY <2>2, <5>1, <6>2 DEF Keyed, Rivalled
        <5> QED BY <3>7, <5>1
      <4>2. cached[NoRun][key] # NoReply => cached'[NoRun][key] = cached[NoRun][key]
        BY <3>7
      <4> QED BY <2>1, <2>2, <2>3, <3>9, <4>1, <4>2 DEF Replayed, InFlight
    <3> QED BY <3>8, <3>9
  <2> QED BY <1>0, <1>4, <2>5, <2>6, CreatedStored
<1>5. ASSUME pc[r] # "idle", Restart PROVE Replayed(r)'
  <2>1. ~InFlight(r)' /\ restarts' = restarts + 1
    BY <1>5 DEF Restart, InFlight
  <2>2. boot'[r] # restarts'
    BY <1>0, <1>1, <1>5, <2>1 DEF Stations, TypeOK
  <2> QED BY <2>1, <2>2 DEF Replayed
<1>6. ASSUME pc[r] # "idle", UNCHANGED <<pc, cached, reply, restarts>> PROVE Replayed(r)'
  BY <1>1, <1>2, <1>6 DEF Replayed, InFlight
<1>7. ASSUME pc[r] # "idle", NEW q \in Requests, SendRequest(q) PROVE Replayed(r)'
  <2>1. pc'[r] = pc[r] /\ UNCHANGED <<cached, reply, restarts>>
    BY <1>0, <1>7, Sent
  <2> QED BY <1>1, <1>2, <1>7, <2>1 DEF Replayed, InFlight
<1>8. (\E n \in Runs : FindOrphan(n) \/ DriftCorpus(n)) \/ UNCHANGED vars
         => UNCHANGED <<pc, cached, reply, restarts>>
  BY DEF FindOrphan, DriftCorpus, vars, memory, client, bounds
<1>9. Replayed(r)'
  BY <1>1, <1>3, <1>4, <1>5, <1>6, <1>7, <1>8 DEF Next, Environment, Replayed
<1> QED BY <1>9 DEF Replayed

(* Two of these answers are one. *)
LEMMA OneRunStep ==
    ASSUME IInv, Stations, Remembered, ReplayedCreateIsOneRun, [HNext]_<<vars, history>>,
           Stations', \A r \in Requests : Replayed(r)'
    PROVE  ReplayedCreateIsOneRun'
<1> SUFFICES ASSUME NEW p \in Requests, NEW q \in Requests,
                    reply'[p].status = "201", reply'[q].status = "201",
                    Keyed(p)', Keyed(q)', call'[p].key = call'[q].key, boot'[p] = boot'[q]
             PROVE  reply'[p].run = reply'[q].run
  BY DEF ReplayedCreateIsOneRun, Keyed
<1>1. CASE boot'[p] = restarts'
  BY <1>1 DEF Replayed
<1>2. ASSUME NEW r \in Requests, reply'[r].status = "201", Keyed(r)', boot'[r] # restarts'
      PROVE  /\ Keyed(r) /\ reply'[r] = reply[r] /\ boot'[r] = boot[r]
             /\ call'[r].key = call[r].key
  <2>1. /\ [Next]_vars
        /\ boot'[r] = IF pc[r] = "idle" THEN restarts' ELSE boot[r]
    BY HistoryGrows
  <2>2. pc[r] # "idle" /\ boot'[r] = boot[r]
    BY <1>2, <2>1
  <2>3. Keyed(r) /\ call'[r].key = call[r].key
    BY <1>2, <2>2, KeyedBefore DEF IInv
  <2>4. reply'[r] = reply[r]
    <3>1. CASE pc[r] # "done" /\ restarts' = restarts
      BY <1>2, <2>2, <3>1 DEF Stations
    <3> QED BY <1>2, <2>1, <3>1, RepliesKept DEF IInv
  <2> QED BY <2>2, <2>3, <2>4
<1>3. CASE boot'[p] # restarts'
  <2>1. /\ Keyed(p) /\ reply'[p] = reply[p] /\ boot'[p] = boot[p] /\ call'[p].key = call[p].key
        /\ Keyed(q) /\ reply'[q] = reply[q] /\ boot'[q] = boot[q] /\ call'[q].key = call[q].key
    BY <1>2, <1>3
  <2> QED BY <2>1 DEF ReplayedCreateIsOneRun, Keyed
<1> QED BY <1>1, <1>3

(* The invariant holds initially, ... *)
LEMMA DInvInit == HInit => DInv
<1> SUFFICES ASSUME HInit PROVE DInv
  OBVIOUS
<1> USE DEF HInit, Init
<1>1. Stations
  BY RunControlAssumption DEF Stations, Made, NoCall
<1>2. Remembered
  BY DEF Remembered, Meeting, Creating, InFlight, Idle
<1>3. Looking /\ ConflictChecked
  BY DEF Looking, ConflictChecked, Made, NoCall
<1>4. \A r \in Requests : Replayed(r)
  BY DEF Replayed, Keyed, NoCall
<1>5. ReplayedCreateIsOneRun
  BY DEF ReplayedCreateIsOneRun, NoReply
<1> QED BY <1>1, <1>2, <1>3, <1>4, <1>5 DEF DInv

(* ... and every step preserves it, so it always holds. *)
LEMMA DInvStep ==
    ASSUME IInv, IInv', DInv, [HNext]_<<vars, history>> PROVE DInv'
<1>1. TypeOK /\ Serving /\ Ownership'
  BY DEF IInv
<1>2. Remembered' /\ Stations'
  BY <1>1, RememberedStep, StationsStep DEF DInv
<1>3. Looking' /\ ConflictChecked'
  BY <1>1, <1>2, LookingStep DEF DInv
<1>4. \A r \in Requests : Replayed(r)'
  BY <1>2, ReplayedStep DEF DInv
<1>5. ReplayedCreateIsOneRun'
  BY <1>2, <1>4, OneRunStep DEF DInv
<1> QED BY <1>2, <1>3, <1>4, <1>5 DEF DInv

LEMMA DInvKept == HSpec => []DInv
<1>1. IInv /\ IInv' /\ DInv /\ [HNext]_<<vars, history>> => DInv'
  BY DInvStep
<1>2. HSpec => []IInv
  BY RacesRemembered, PTL
<1> QED BY <1>1, <1>2, DInvInit, PTL DEF HSpec

(* What the conflict check is worth: two runs that have both been active   *)
(* ever since they were made come from creates that were in flight         *)
(* together, after any crashes, pauses and failures of others.             *)
THEOREM ConflictsChecked == HSpec => []ConflictChecked
<1>1. DInv => ConflictChecked
  BY DEF DInv
<1> QED BY <1>1, DInvKept, PTL

(* Two creates with one key, answered by one server, are answered with one *)
(* run, unless one of them was in flight together with a create of the key.*)
THEOREM CreatesReplay == HSpec => []ReplayedCreateIsOneRun
<1>1. DInv => ReplayedCreateIsOneRun
  BY DEF DInv
<1> QED BY <1>1, DInvKept, PTL

=============================================================================
