----------------------------- MODULE RunHistory -----------------------------
(***************************************************************************)
(* RunControl with a memory of what has overlapped, so that its properties *)
(* can say which overlap they fear: the lock of a run is made on first use *)
(* by whoever looks for it, the conflict check and the idempotency store   *)
(* are asked before a create and told after it.                            *)
(*                                                                         *)
(* The history constrains nothing: every behaviour of RunControl is one of *)
(* this specification, and the other way round.                            *)
(***************************************************************************)
EXTENDS RunControl

VARIABLES
    raced,   \* the runs whose lock two threads have been making at once
    idled,   \* the runs that have been stored in a state that is not active
    met,     \* the pairs of creates that have been in flight together
    boot     \* request -> how often the server had restarted when it was sent

history == <<raced, idled, met, boot>>

Creating(r) == InFlight(r) /\ call[r].op = "create"

Racing ==
    {n \in Runs : \E q, r \in Requests :
        q # r /\ pc[q] = "make" /\ pc[r] = "make" /\ Run(q) = n /\ Run(r) = n}
Idle == {n \in Runs : manifest[n] # Absent} \ Active
Meeting ==
    {pair \in Requests \X Requests :
        pair[1] # pair[2] /\ Creating(pair[1]) /\ Creating(pair[2])}

HInit == Init /\ raced = {} /\ idled = {} /\ met = {}
         /\ boot = [r \in Requests |-> 0]

Remembers ==
    /\ raced' = raced \union Racing'
    /\ idled' = idled \union Idle'
    /\ met' = met \union Meeting'
    /\ boot' = [r \in Requests |-> IF pc[r] = "idle" THEN restarts' ELSE boot[r]]

HNext == Next /\ Remembers

HSpec == HInit /\ [][HNext]_<<vars, history>>
FairHSpec == HSpec /\ Fairness

-----------------------------------------------------------------------------
(* Properties.                                                             *)

(* Whatever pauses, resumes, submissions and creates are in flight, at most*)
(* one thread is between its first and last access to a run's files,       *)
(* although create_run takes no lock: unless two threads were once making  *)
(* the run's lock at the same time, which "run_locks" does not prevent.    *)
SingleWriterUnlessRaced ==
    \A q, r \in Requests :
        /\ Builds(q) \/ Holds(q)
        /\ Builds(r) \/ Holds(r)
        /\ Run(q) = Run(r) /\ Run(q) \notin raced
        => q = r

(* update_run_state never writes back an outdated manifest: at the write,  *)
(* what the thread read is still what manifest.json says, so no concurrent *)
(* pause, resume or drift is lost, save for a run whose lock was raced for.*)
NoLostUpdate ==
    \A r \in Requests :
        pc[r] \in UpdateLabels /\ mid[r] /\ Run(r) \notin raced
            => seen[r] = manifest[Run(r)]

(* The events of journal.jsonl are numbered 0, 1, 2, ...: no two writers   *)
(* ever drew the same number from next_journal_seq, so a reader that pages *)
(* with fromSeq = last seq + 1 sees each event once; with the same caveat. *)
JournalGapFree ==
    \A n \in Runs \ raced : \A i \in DOMAIN journal[n] : journal[n][i].seq = i - 1

Made(r) == call[r].op = "create" /\ Run(r) \in Runs

(* What the conflict check of create_run_route is worth.  Of two runs that *)
(* have both been active ever since they were made, the creates were in    *)
(* flight together: whoever comes later, by any way and after any crash,   *)
(* is refused.                                                             *)
ConflictChecked ==
    \A q, r \in Requests :
        q # r /\ Made(q) /\ Made(r) /\ {Run(q), Run(r)} \subseteq Active \ idled
            => <<q, r>> \in met

(* RunConflictError again, for clients that never send two creates at once:*)
(* two active runs come from overlapping creates only.  Not so, since a    *)
(* PAUSED run does not count as active and resume looks at no other run.   *)
ConflictCheckSuffices ==
    \A q, r \in Requests :
        q # r /\ Made(q) /\ Made(r) /\ {Run(q), Run(r)} \subseteq Active
            => <<q, r>> \in met

(* "A repeated key returns the original result" (api/idempotency.py): two  *)
(* creates with one key, answered by one server process, answer one run,   *)
(* whatever pauses, failures and other creates come in between, unless one *)
(* of them was in flight together with a create of that key.               *)
Rivalled(r) ==
    \E p \in Requests : <<p, r>> \in met /\ call[p].key = call[r].key
ReplayedCreateIsOneRun ==
    \A q, r \in Requests :
        /\ reply[q].status = "201" /\ reply[r].status = "201"
        /\ call[q].op = "create" /\ call[r].op = "create"
        /\ call[q].key = call[r].key /\ call[r].key # NoKey
        /\ boot[q] = boot[r]
        /\ ~Rivalled(q) /\ ~Rivalled(r)
        => reply[q].run = reply[r].run
=============================================================================
