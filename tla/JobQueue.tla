------------------------------ MODULE JobQueue ------------------------------
(***************************************************************************)
(* The database-backed background job queue of backend/src/lib/jobs.js.    *)
(*                                                                         *)
(* Every backend process runs one polling worker; during a deploy two      *)
(* processes poll the same table.  A row is claimed in a serializable      *)
(* transaction that writes a fresh lease token, the handler runs outside   *)
(* any transaction, and its outcome is written by an update whose WHERE    *)
(* names that token.  A row left in "processing" for longer than the lock  *)
(* timeout may be claimed again by anybody.                                *)
(*                                                                         *)
(* Time is relative: due[j] is how long until availableAt (negative when   *)
(* it has passed, no lower than -Horizon), lockAge[j] how long ago the row *)
(* was locked (no higher than LockTimeout + 1).                            *)
(***************************************************************************)
EXTENDS Integers, FiniteSets

CONSTANTS
    Jobs,           \* the rows that may ever be created
    Workers,        \* backend processes with the worker enabled
    Keys,           \* dedupe keys
    NoKey,          \* a job without a dedupe key
    KeyOf,          \* the key each job is enqueued with
    Deferrable,     \* jobs that are courtesy mail and may be held
    Tokens,         \* lease tokens (UUIDs)
    NoToken,        \* leaseToken IS NULL
    NoJob,          \* a worker with no job in hand
    MaxAttempts,    \* background_jobs.maxAttempts
    MaxJobsPerTick, \* MAX_JOBS_PER_TICK
    LockTimeout,    \* JOB_LOCK_TIMEOUT_MS
    RetryBase,      \* JOB_RETRY_BASE_DELAY_MS
    DeferDelay,     \* time until the mail allowance resets
    EnqueueDelays,  \* delays callers ask for with options.availableAt
    Horizon,        \* bound: how long ago availableAt may lie
    MaxFaults,      \* bound: crashes, shutdowns, failed updates and handlers that overrun their lock
    MaxDeferrals    \* bound: times courtesy mail is held

ASSUME ConstantsAssumption ==
    /\ KeyOf \in [Jobs -> Keys \cup {NoKey}]
    /\ NoKey \notin Keys
    /\ NoToken \notin Tokens
    /\ NoJob \notin Jobs
    /\ Deferrable \subseteq Jobs
    /\ MaxAttempts \in Nat \ {0}
    /\ MaxJobsPerTick \in Nat \ {0}
    /\ LockTimeout \in Nat /\ RetryBase \in Nat /\ DeferDelay \in Nat
    /\ EnqueueDelays \subseteq Nat
    /\ Horizon \in Nat /\ MaxFaults \in Nat /\ MaxDeferrals \in Nat

VARIABLES
    \* The table background_jobs, one function per column.
    status,     \* also the fate of an enqueue call that created no row
    attempts,
    due,
    lockAge,
    lease,
    keyed,      \* the rows whose dedupeKey column is set
    \* The workers.
    pc,         \* what the worker's process is doing
    job,        \* the row the running tick holds
    token,      \* that row's lease token as the claim returned it
    snap,       \* its attempts as the claim returned it
    taken,      \* processedCount of the running tick
    stopping,   \* the processes told to shut down
    \* Observers and bounds.
    delivered,  \* the jobs whose handler has completed at least once
    faults,
    deferrals

row    == <<status, attempts, due, lockAge, lease, keyed>>
hand   == <<job, token, snap>>
worker == <<pc, hand, taken, stopping>>
bounds == <<faults, deferrals>>
vars   == <<row, worker, delivered, bounds>>

RowStatus == {"queued", "processing", "succeeded", "failed"}
Requested == {"absent", "conflict", "coalesced", "rejected"}
Status    == RowStatus \cup Requested
Terminal  == {"succeeded", "failed"}
Pc        == {"off", "idle", "polling", "running", "done", "failed"}
Holding   == {"running", "done", "failed"}

TypeOK ==
    /\ status \in [Jobs -> Status]
    /\ attempts \in [Jobs -> Nat]
    /\ due \in [Jobs -> Int]
    /\ lockAge \in [Jobs -> 0 .. LockTimeout + 1]
    /\ lease \in [Jobs -> Tokens \cup {NoToken}]
    /\ keyed \subseteq Jobs
    /\ pc \in [Workers -> Pc]
    /\ job \in [Workers -> Jobs \cup {NoJob}]
    /\ token \in [Workers -> Tokens \cup {NoToken}]
    /\ snap \in [Workers -> Nat]
    /\ taken \in [Workers -> 0 .. MaxJobsPerTick]
    /\ stopping \subseteq Workers
    /\ delivered \subseteq Jobs
    /\ faults \in 0 .. MaxFaults
    /\ deferrals \in 0 .. MaxDeferrals

Init ==
    /\ status = [j \in Jobs |-> "absent"]
    /\ attempts = [j \in Jobs |-> 0]
    /\ due = [j \in Jobs |-> 0]
    /\ lockAge = [j \in Jobs |-> 0]
    /\ lease = [j \in Jobs |-> NoToken]
    /\ keyed = {}
    /\ pc = [w \in Workers |-> "idle"]
    /\ job = [w \in Workers |-> NoJob]
    /\ token = [w \in Workers |-> NoToken]
    /\ snap = [w \in Workers |-> 0]
    /\ taken = [w \in Workers |-> 0]
    /\ stopping = {}
    /\ delivered = {}
    /\ faults = 0
    /\ deferrals = 0

-----------------------------------------------------------------------------
(* Enqueueing.  The unique index on dedupeKey rejects a second live row    *)
(* with the same key; the look-up that follows is a separate statement, so *)
(* the row it collided with may have become terminal in between.           *)

KeyHolders(j) == {k \in keyed : KeyOf[k] = KeyOf[j]}

InsertJob(j, delay) ==
    /\ status[j] = "absent"
    /\ IF KeyHolders(j) = {}
       THEN /\ status' = [status EXCEPT ![j] = "queued"]
            /\ due' = [due EXCEPT ![j] = delay]
            /\ keyed' = IF KeyOf[j] = NoKey THEN keyed ELSE keyed \cup {j}
       ELSE /\ status' = [status EXCEPT ![j] = "conflict"]
            /\ UNCHANGED <<due, keyed>>
    /\ UNCHANGED <<attempts, lockAge, lease, worker, delivered, bounds>>

LookUpDuplicate(j) ==
    /\ status[j] = "conflict"
    /\ status' = [status EXCEPT ![j] =
                    IF KeyHolders(j) = {} THEN "rejected" ELSE "coalesced"]
    /\ UNCHANGED <<attempts, due, lockAge, lease, keyed, worker, delivered, bounds>>

-----------------------------------------------------------------------------
(* Claiming.                                                               *)

\* WHERE id = job.id AND status = 'processing' AND leaseToken = job.leaseToken
\* Mutant: the update is keyed by id alone.
UnfencedHoldsLease(w) == job[w] \in Jobs

HoldsLease(w) ==
    /\ job[w] \in Jobs
    /\ status[job[w]] = "processing"
    /\ lease[job[w]] = token[w]

\* Mutant: rows abandoned in processing are never picked up again.
QueuedOnlyClaimable(j) == status[j] = "queued" /\ due[j] <= 0

Claimable(j) ==
    \/ status[j] = "queued" /\ due[j] <= 0
    \/ status[j] = "processing" /\ lockAge[j] > LockTimeout

Candidates == {j \in Jobs : Claimable(j) /\ \A k \in Jobs : Claimable(k) => due[j] <= due[k]}

\* crypto.randomUUID(): a token that neither the row has nor a worker remembers for it.
Fresh(j) == {t \in Tokens : t # lease[j] /\ \A w \in Workers : job[w] = j => token[w] # t}
NewToken(j) == CHOOSE t \in Fresh(j) : TRUE

StartTick(w) ==
    /\ pc[w] = "idle" /\ w \notin stopping
    /\ pc' = [pc EXCEPT ![w] = "polling"]
    /\ UNCHANGED <<row, hand, taken, stopping, delivered, bounds>>

\* Mutant: a reclaim keeps the lease token of the worker it replaces.
KeepTokenClaimRow(w, j, t) ==
    LET kept == IF status[j] = "processing" THEN lease[j] ELSE t IN
    /\ status' = [status EXCEPT ![j] = "processing"]
    /\ lockAge' = [lockAge EXCEPT ![j] = 0]
    /\ lease' = [lease EXCEPT ![j] = kept]
    /\ attempts' = [attempts EXCEPT ![j] = @ + 1]
    /\ job' = [job EXCEPT ![w] = j]
    /\ token' = [token EXCEPT ![w] = kept]
    /\ snap' = [snap EXCEPT ![w] = attempts[j] + 1]

ClaimRow(w, j, t) ==
    /\ status' = [status EXCEPT ![j] = "processing"]
    /\ lockAge' = [lockAge EXCEPT ![j] = 0]
    /\ lease' = [lease EXCEPT ![j] = t]
    /\ attempts' = [attempts EXCEPT ![j] = @ + 1]
    /\ job' = [job EXCEPT ![w] = j]
    /\ token' = [token EXCEPT ![w] = t]
    /\ snap' = [snap EXCEPT ![w] = attempts[j] + 1]

\* The handler of the row's present owner is still running: it overran its lock.
Overrun(j) == \E v \in Workers : HoldsLease(v) /\ job[v] = j

\* Mutant: the batch limit is off by one.
OverfullClaimNextJob(w) ==
    /\ pc[w] = "polling" /\ taken[w] <= MaxJobsPerTick
    /\ \E j \in Candidates :
        /\ Fresh(j) # {}
        /\ Overrun(j) => faults < MaxFaults
        /\ ClaimRow(w, j, NewToken(j))
        /\ faults' = IF Overrun(j) THEN faults + 1 ELSE faults
    /\ pc' = [pc EXCEPT ![w] = "running"]
    /\ UNCHANGED <<due, keyed, taken, stopping, delivered, deferrals>>

ClaimNextJob(w) ==
    /\ pc[w] = "polling" /\ taken[w] < MaxJobsPerTick
    /\ \E j \in Candidates :
        /\ Fresh(j) # {}
        /\ Overrun(j) => faults < MaxFaults
        /\ ClaimRow(w, j, NewToken(j))
        /\ faults' = IF Overrun(j) THEN faults + 1 ELSE faults
    /\ pc' = [pc EXCEPT ![w] = "running"]
    /\ UNCHANGED <<due, keyed, taken, stopping, delivered, deferrals>>

\* Nothing to claim, the batch is full, or the claim itself threw.
EndTick(w) ==
    /\ pc[w] = "polling"
    /\ pc' = [pc EXCEPT ![w] = "idle"]
    /\ taken' = [taken EXCEPT ![w] = 0]
    /\ UNCHANGED <<row, hand, stopping, delivered, bounds>>

-----------------------------------------------------------------------------
(* Running a handler and writing its outcome.                              *)

PutDown(w) ==
    /\ pc' = [pc EXCEPT ![w] = "polling"]
    /\ taken' = [taken EXCEPT ![w] = @ + 1]
    /\ job' = [job EXCEPT ![w] = NoJob]
    /\ token' = [token EXCEPT ![w] = NoToken]
    /\ snap' = [snap EXCEPT ![w] = 0]

Release(j) ==
    /\ lease' = [lease EXCEPT ![j] = NoToken]
    /\ lockAge' = [lockAge EXCEPT ![j] = 0]

HandlerCompletes(w) ==
    /\ pc[w] = "running"
    /\ pc' = [pc EXCEPT ![w] = "done"]
    /\ delivered' = delivered \cup {job[w]}
    /\ UNCHANGED <<row, hand, taken, stopping, bounds>>

HandlerThrows(w) ==
    /\ pc[w] = "running"
    /\ pc' = [pc EXCEPT ![w] = "failed"]
    /\ UNCHANGED <<row, hand, taken, stopping, delivered, bounds>>

\* deferJob.  When the lease is gone the update matches nothing and the
\* caller throws, which sends the worker to the failure path.
DeferJob(w) ==
    /\ pc[w] = "running" /\ job[w] \in Deferrable /\ deferrals < MaxDeferrals
    /\ IF HoldsLease(w)
       THEN /\ status' = [status EXCEPT ![job[w]] = "queued"]
            /\ due' = [due EXCEPT ![job[w]] = DeferDelay]
            /\ attempts' = [attempts EXCEPT ![job[w]] =
                              IF snap[w] > 0 THEN snap[w] - 1 ELSE 0]
            /\ Release(job[w])
            /\ PutDown(w)
       ELSE /\ pc' = [pc EXCEPT ![w] = "failed"]
            /\ UNCHANGED <<status, due, attempts, lease, lockAge, hand, taken>>
    /\ deferrals' = deferrals + 1
    /\ UNCHANGED <<keyed, stopping, delivered, faults>>

WriteSucceeded(w) ==
    IF HoldsLease(w)
    THEN /\ status' = [status EXCEPT ![job[w]] = "succeeded"]
         /\ keyed' = keyed \ {job[w]}
         /\ Release(job[w])
         /\ UNCHANGED <<attempts, due>>
    ELSE UNCHANGED row

RetryDelay(n) == RetryBase * (IF n > 1 THEN n ELSE 1)

\* Mutant: a retry gives its dedupe key up.
KeylessRetryWriteFailed(w) ==
    IF ~HoldsLease(w) THEN UNCHANGED row
    ELSE /\ status' = [status EXCEPT ![job[w]] = IF snap[w] >= MaxAttempts THEN "failed" ELSE "queued"]
         /\ due' = [due EXCEPT ![job[w]] = RetryDelay(snap[w])]
         /\ keyed' = keyed \ {job[w]}
         /\ Release(job[w])
         /\ UNCHANGED attempts

WriteFailed(w) ==
    IF ~HoldsLease(w) THEN UNCHANGED row
    ELSE /\ IF snap[w] >= MaxAttempts
            THEN /\ status' = [status EXCEPT ![job[w]] = "failed"]
                 /\ keyed' = keyed \ {job[w]}
                 /\ UNCHANGED due
            ELSE /\ status' = [status EXCEPT ![job[w]] = "queued"]
                 /\ due' = [due EXCEPT ![job[w]] = RetryDelay(snap[w])]
                 /\ UNCHANGED keyed
         /\ Release(job[w])
         /\ UNCHANGED attempts

MarkJobSucceeded(w) ==
    /\ pc[w] = "done"
    /\ WriteSucceeded(w)
    /\ PutDown(w)
    /\ UNCHANGED <<stopping, delivered, bounds>>

MarkJobFailed(w) ==
    /\ pc[w] = "failed"
    /\ WriteFailed(w)
    /\ PutDown(w)
    /\ UNCHANGED <<stopping, delivered, bounds>>

\* The update throws, before or after the database applied it.  An error of
\* markJobSucceeded is caught by the handler's own catch block, which then
\* calls markJobFailed.
MarkSucceededThrows(w) ==
    /\ pc[w] = "done" /\ faults < MaxFaults
    /\ WriteSucceeded(w) \/ UNCHANGED row
    /\ pc' = [pc EXCEPT ![w] = "failed"]
    /\ faults' = faults + 1
    /\ UNCHANGED <<hand, taken, stopping, delivered, deferrals>>

\* An error of markJobFailed leaves the loop and is logged by tickWorkerSafely.
MarkFailedThrows(w) ==
    /\ pc[w] = "failed" /\ faults < MaxFaults
    /\ WriteFailed(w) \/ UNCHANGED row
    /\ pc' = [pc EXCEPT ![w] = "idle"]
    /\ job' = [job EXCEPT ![w] = NoJob]
    /\ token' = [token EXCEPT ![w] = NoToken]
    /\ snap' = [snap EXCEPT ![w] = 0]
    /\ taken' = [taken EXCEPT ![w] = 0]
    /\ faults' = faults + 1
    /\ UNCHANGED <<stopping, delivered, deferrals>>

-----------------------------------------------------------------------------
(* Process life cycle and time.                                            *)

\* stopJobWorker: no new tick starts, the running one goes on.
StopJobWorker(w) ==
    /\ pc[w] # "off" /\ w \notin stopping /\ faults < MaxFaults
    /\ stopping' = stopping \cup {w}
    /\ faults' = faults + 1
    /\ UNCHANGED <<row, pc, hand, taken, delivered, deferrals>>

LoseProcess(w) ==
    /\ pc' = [pc EXCEPT ![w] = "off"]
    /\ job' = [job EXCEPT ![w] = NoJob]
    /\ token' = [token EXCEPT ![w] = NoToken]
    /\ snap' = [snap EXCEPT ![w] = 0]
    /\ taken' = [taken EXCEPT ![w] = 0]
    /\ stopping' = stopping \ {w}
    /\ UNCHANGED <<row, delivered, deferrals>>

\* The process exits once drained, or when the drain timed out.
Exit(w) == w \in stopping /\ pc[w] # "off" /\ LoseProcess(w) /\ UNCHANGED faults

Crash(w) ==
    /\ pc[w] # "off" /\ faults < MaxFaults
    /\ LoseProcess(w)
    /\ faults' = faults + 1

StartJobWorker(w) ==
    /\ pc[w] = "off"
    /\ pc' = [pc EXCEPT ![w] = "idle"]
    /\ UNCHANGED <<row, hand, taken, stopping, delivered, bounds>>

Elapse(d) == IF d > -Horizon THEN d - 1 ELSE d
Older(a)  == IF a <= LockTimeout THEN a + 1 ELSE a

\* Only rows that wait for something have a clock.
Tick ==
    /\ due' = [j \in Jobs |-> IF status[j] \in {"queued", "processing"} THEN Elapse(due[j]) ELSE due[j]]
    /\ lockAge' = [j \in Jobs |-> IF status[j] = "processing" THEN Older(lockAge[j]) ELSE lockAge[j]]
    /\ UNCHANGED <<status, attempts, lease, keyed, worker, delivered, bounds>>

-----------------------------------------------------------------------------
Work(w) ==
    \/ HandlerCompletes(w) \/ HandlerThrows(w) \/ DeferJob(w)
    \/ MarkJobSucceeded(w) \/ MarkJobFailed(w)
    \/ MarkSucceededThrows(w) \/ MarkFailedThrows(w)

WorkerStep(w) ==
    \/ StartTick(w) \/ ClaimNextJob(w) \/ EndTick(w) \/ Work(w)
    \/ StopJobWorker(w) \/ Exit(w) \/ Crash(w) \/ StartJobWorker(w)

Next ==
    \/ \E j \in Jobs : \E d \in EnqueueDelays : InsertJob(j, d)
    \/ \E j \in Jobs : LookUpDuplicate(j)
    \/ \E w \in Workers : WorkerStep(w)
    \/ Tick

\* setInterval keeps ticking, an await that returns is resumed, an orchestrator
\* restarts a dead container, and a tick that finds a row claims it.
Fairness ==
    /\ WF_vars(Tick)
    /\ \A w \in Workers :
        /\ WF_vars(StartTick(w)) /\ SF_vars(ClaimNextJob(w)) /\ WF_vars(EndTick(w))
        /\ WF_vars(Work(w)) /\ WF_vars(Exit(w)) /\ WF_vars(StartJobWorker(w))

Spec == Init /\ [][Next]_vars /\ Fairness

-----------------------------------------------------------------------------
(* Safety.                                                                 *)

\* A lease token has one owner: at most one worker can still write the outcome
\* of a row, the one whose claim is the row's latest, and what it remembers of
\* the row's attempts is what the row holds.  The stale worker that lost its
\* lock to a reclaim is fenced off (updateMany ... leaseToken: job.leaseToken).
LeaseOwnership ==
    \A w \in Workers : HoldsLease(w) =>
        /\ pc[w] \in Holding
        /\ snap[w] = attempts[job[w]]
        /\ \A v \in Workers : HoldsLease(v) /\ job[v] = job[w] => v = w

\* Two live rows never carry the same dedupe key, and a key is given up only
\* when its row is finished: no retry, deferral or reclaim opens a window in
\* which the same work is queued twice.
OneLiveRowPerKey ==
    /\ \A j, k \in keyed : KeyOf[j] = KeyOf[k] => j = k
    /\ \A j \in Jobs : status[j] \in {"queued", "processing"} /\ KeyOf[j] # NoKey => j \in keyed

\* A row is marked succeeded only if a handler ran to completion for it: a held
\* courtesy mail, a lost lease or a crash never turns into a success.
SucceededWasDelivered == \A j \in Jobs : status[j] = "succeeded" => j \in delivered

\* A row is given up only after it was claimed at least maxAttempts times, with
\* deferrals not counted.
FailedOnlyWhenExhausted == \A j \in Jobs : status[j] = "failed" => attempts[j] >= MaxAttempts

\* A finished row stays as it is, whatever a worker that lost its lease or a
\* process that comes back still tries to write.
TerminalIsFinal ==
    [][\A j \in Jobs : status[j] \in Terminal => status'[j] = status[j] /\ attempts'[j] = attempts[j]]_vars

\* The queue implements the promise of JobLedger: calls are coalesced only into
\* live work, work is settled once, and a success follows a delivery.
LedgerOf(j) ==
    CASE status[j] \in {"absent", "conflict"} -> "absent"
      [] status[j] \in {"queued", "processing"} -> "pending"
      [] status[j] = "rejected" -> "refused"
      [] OTHER -> status[j]

Ledger == INSTANCE JobLedger WITH ledger <- [j \in Jobs |-> LedgerOf(j)]

KeepsLedger == Ledger!Safe

(* Liveness.                                                               *)

\* Once faults stop and courtesy mail is no longer held, every accepted job is
\* delivered or given up: a crashed worker's row is reclaimed, a retry comes due.
EveryJobSettles == \A j \in Jobs : status[j] = "queued" ~> status[j] \in Terminal
=============================================================================
