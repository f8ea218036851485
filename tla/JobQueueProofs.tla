--------------------------- MODULE JobQueueProofs ---------------------------
(* TLAPS proofs about JobQueue, for every number of jobs, workers and keys. *)
EXTENDS JobQueue, TLAPS

\* What a worker has in hand matches what it is doing.
HandInv ==
    \A w \in Workers :
        IF pc[w] \in Holding
        THEN job[w] \in Jobs /\ token[w] \in Tokens /\ taken[w] < MaxJobsPerTick
        ELSE job[w] = NoJob

\* A lease is set exactly while its row is processing, two workers never
\* remember the same lease of a row, and its owner knows the row's attempts.
LeaseInv ==
    /\ \A j \in Jobs : status[j] = "processing" <=> lease[j] # NoToken
    /\ \A v, w \in Workers : job[v] \in Jobs /\ job[v] = job[w] /\ token[v] = token[w] => v = w
    /\ \A w \in Workers : HoldsLease(w) => snap[w] = attempts[job[w]]

IInv == TypeOK /\ HandInv /\ LeaseInv

\* The initial state satisfies the inductive invariant.
LEMMA InitIInv == Init => IInv
<1> USE ConstantsAssumption
<1>1. Init => TypeOK
  BY DEF Init, TypeOK, Status, Requested, Pc
<1>2. Init => HandInv
  BY DEF Init, HandInv, Holding
<1>3. Init => LeaseInv
  BY DEF Init, LeaseInv, HoldsLease
<1> QED BY <1>1, <1>2, <1>3 DEF IInv

\* A fresh token differs from the row's lease and from every token a worker
\* remembers for that row.
LEMMA FreshToken ==
    ASSUME NEW j \in Jobs, Fresh(j) # {}
    PROVE  /\ NewToken(j) \in Tokens
           /\ NewToken(j) # lease[j]
           /\ \A w \in Workers : job[w] = j => token[w] # NewToken(j)
<1>1. NewToken(j) \in Fresh(j)
  BY DEF NewToken
<1> QED BY <1>1 DEF Fresh

\* A worker that puts its row down keeps the hand invariant.
LEMMA PutDownHand ==
    ASSUME TypeOK, HandInv, NEW w \in Workers, pc[w] \in Holding, PutDown(w)
    PROVE  /\ pc' \in [Workers -> Pc] /\ job' \in [Workers -> Jobs \cup {NoJob}]
           /\ token' \in [Workers -> Tokens \cup {NoToken}] /\ snap' \in [Workers -> Nat]
           /\ taken' \in [Workers -> 0 .. MaxJobsPerTick]
           /\ HandInv'
BY ConstantsAssumption DEF TypeOK, HandInv, PutDown, Pc, Holding

\* Writing an outcome, fenced or not, keeps the table well typed and touches
\* nothing but the row whose lease the worker holds.
LEMMA WriteOutcome ==
    ASSUME TypeOK, NEW w \in Workers, WriteSucceeded(w) \/ WriteFailed(w) \/ UNCHANGED row
    PROVE  /\ status' \in [Jobs -> Status] /\ attempts' \in [Jobs -> Nat] /\ due' \in [Jobs -> Int]
           /\ lockAge' \in [Jobs -> 0 .. LockTimeout + 1]
           /\ lease' \in [Jobs -> Tokens \cup {NoToken}] /\ keyed' \subseteq Jobs
           /\ attempts' = attempts
           /\ \A j \in Jobs : \/ status'[j] = status[j] /\ lease'[j] = lease[j]
                              \/ status'[j] # "processing" /\ lease'[j] = NoToken
<1> USE ConstantsAssumption DEF TypeOK, row, Status, RowStatus, Release
<1>1. CASE WriteSucceeded(w)
  BY <1>1 DEF WriteSucceeded, HoldsLease
<1>2. CASE WriteFailed(w)
  <2>1. \A n \in Nat : RetryDelay(n) \in Int
    BY DEF RetryDelay
  <2> QED BY <1>2, <2>1 DEF WriteFailed, HoldsLease
<1>3. CASE UNCHANGED row
  BY <1>3
<1> QED BY <1>1, <1>2, <1>3

\* A released or untouched row and a worker that puts its row down, or keeps it,
\* keep the lease invariant.
LEMMA LeaseInvKept ==
    ASSUME LeaseInv, TypeOK, attempts' = attempts,
           \A j \in Jobs : \/ status'[j] = status[j] /\ lease'[j] = lease[j]
                           \/ status'[j] # "processing" /\ lease'[j] = NoToken,
           \A v \in Workers : \/ job'[v] = job[v] /\ token'[v] = token[v] /\ snap'[v] = snap[v]
                              \/ job'[v] = NoJob
    PROVE  LeaseInv'
BY ConstantsAssumption DEF LeaseInv, HoldsLease, TypeOK

\* Every step keeps the inductive invariant.
LEMMA NextIInv == IInv /\ [Next]_vars => IInv'
<1> SUFFICES ASSUME IInv, [Next]_vars PROVE IInv'
  OBVIOUS
<1> USE ConstantsAssumption DEF IInv
<1>1. ASSUME NEW j \in Jobs, NEW d \in EnqueueDelays, InsertJob(j, d) PROVE IInv'
  BY <1>1 DEF InsertJob, TypeOK, HandInv, LeaseInv, HoldsLease, worker, hand, bounds, Status, RowStatus, Requested
<1>2. ASSUME NEW j \in Jobs, LookUpDuplicate(j) PROVE IInv'
  BY <1>2 DEF LookUpDuplicate, TypeOK, HandInv, LeaseInv, HoldsLease, worker, hand, bounds, Status, RowStatus, Requested
<1>3. ASSUME NEW w \in Workers, WorkerStep(w) PROVE IInv'
  <2>1. CASE StartTick(w) \/ EndTick(w) \/ StartJobWorker(w) \/ StopJobWorker(w) \/ HandlerCompletes(w) \/ HandlerThrows(w)
    <3>1. TypeOK'
      BY <2>1 DEF StartTick, EndTick, StartJobWorker, StopJobWorker, HandlerCompletes, HandlerThrows, HandInv,
                  TypeOK, row, hand, bounds, Pc, Holding
    <3>2. HandInv'
      BY <2>1 DEF StartTick, EndTick, StartJobWorker, StopJobWorker, HandlerCompletes, HandlerThrows,
                  TypeOK, HandInv, row, hand, bounds, Pc, Holding
    <3>3. LeaseInv'
      BY <2>1, LeaseInvKept DEF StartTick, EndTick, StartJobWorker, StopJobWorker, HandlerCompletes, HandlerThrows, row, hand
    <3> QED BY <3>1, <3>2, <3>3
  <2>2. CASE ClaimNextJob(w)
    <3>1. PICK j \in Candidates : /\ Fresh(j) # {} /\ ClaimRow(w, j, NewToken(j))
                                  /\ Overrun(j) => faults < MaxFaults
                                  /\ faults' = IF Overrun(j) THEN faults + 1 ELSE faults
      BY <2>2 DEF ClaimNextJob
    <3>2. j \in Jobs
      BY <3>1 DEF Candidates
    <3>3. /\ NewToken(j) \in Tokens /\ NewToken(j) # lease[j]
          /\ \A v \in Workers : job[v] = j => token[v] # NewToken(j)
      BY <3>1, <3>2, FreshToken
    <3>4. TypeOK'
      BY <2>2, <3>1, <3>2, <3>3 DEF ClaimNextJob, ClaimRow, TypeOK, Status, RowStatus, Pc
    <3>5. HandInv'
      BY <2>2, <3>1, <3>2, <3>3 DEF ClaimNextJob, ClaimRow, TypeOK, HandInv, Holding
    <3>6. LeaseInv'
      BY <2>2, <3>1, <3>2, <3>3 DEF ClaimNextJob, ClaimRow, TypeOK, HandInv, Holding, LeaseInv, HoldsLease
    <3> QED BY <3>4, <3>5, <3>6
  <2>3. CASE DeferJob(w)
    <3>1. CASE HoldsLease(w)
      <4>1. TypeOK' /\ HandInv'
        BY <2>3, <3>1, PutDownHand DEF DeferJob, Release, TypeOK, Status, RowStatus, Holding
      <4>2. LeaseInv'
        BY <2>3, <3>1 DEF DeferJob, Release, PutDown, TypeOK, LeaseInv, HoldsLease
      <4> QED BY <4>1, <4>2
    <3>2. CASE ~HoldsLease(w)
      BY <2>3, <3>2 DEF DeferJob, TypeOK, HandInv, LeaseInv, HoldsLease, hand, Pc, Holding
    <3> QED BY <3>1, <3>2
  <2>4. CASE MarkJobSucceeded(w) \/ MarkJobFailed(w)
    <3>1. WriteSucceeded(w) \/ WriteFailed(w)
      BY <2>4 DEF MarkJobSucceeded, MarkJobFailed
    <3>2. pc[w] \in Holding /\ PutDown(w)
      BY <2>4 DEF MarkJobSucceeded, MarkJobFailed, Holding
    <3>3. TypeOK' /\ HandInv'
      BY <2>4, <3>1, <3>2, WriteOutcome, PutDownHand DEF MarkJobSucceeded, MarkJobFailed, TypeOK, bounds
    <3>4. LeaseInv'
      BY <3>1, <3>2, WriteOutcome, LeaseInvKept DEF PutDown, TypeOK
    <3> QED BY <3>3, <3>4
  <2>5. CASE MarkSucceededThrows(w) \/ MarkFailedThrows(w)
    <3>1. WriteSucceeded(w) \/ WriteFailed(w) \/ UNCHANGED row
      BY <2>5 DEF MarkSucceededThrows, MarkFailedThrows
    <3>2. TypeOK'
      BY <2>5, <3>1, WriteOutcome DEF MarkSucceededThrows, MarkFailedThrows, TypeOK, hand, Pc
    <3>3. HandInv'
      BY <2>5, <3>1 DEF MarkSucceededThrows, MarkFailedThrows, TypeOK, HandInv, hand, Pc, Holding
    <3>4. LeaseInv'
      BY <2>5, <3>1, WriteOutcome, LeaseInvKept DEF MarkSucceededThrows, MarkFailedThrows, TypeOK, hand
    <3> QED BY <3>2, <3>3, <3>4
  <2>6. CASE Exit(w) \/ Crash(w)
    <3>1. LoseProcess(w)
      BY <2>6 DEF Exit, Crash
    <3>2. TypeOK' /\ HandInv'
      BY <2>6, <3>1 DEF LoseProcess, Exit, Crash, TypeOK, HandInv, row, Pc, Holding
    <3>3. LeaseInv'
      BY <3>1, LeaseInvKept DEF LoseProcess, row, TypeOK
    <3> QED BY <3>2, <3>3
  <2> QED BY <1>3, <2>1, <2>2, <2>3, <2>4, <2>5, <2>6 DEF WorkerStep, Work
<1>4. CASE Tick
  BY <1>4 DEF Tick, Elapse, Older, TypeOK, HandInv, LeaseInv, HoldsLease, worker, hand, bounds
<1>5. CASE UNCHANGED vars
  BY <1>5 DEF vars, row, worker, hand, bounds, TypeOK, HandInv, LeaseInv, HoldsLease
<1> QED BY <1>1, <1>2, <1>3, <1>4, <1>5 DEF Next

THEOREM Inductive == Spec => []IInv
<1> QED BY InitIInv, NextIInv, PTL DEF Spec

\* In every reachable state the columns and hands have their types.
THEOREM TypeCorrect == Spec => []TypeOK
<1> QED BY Inductive, PTL DEF IInv

\* A lease token has one owner, who knows the row's attempts.
THEOREM LeaseOwnershipHolds == Spec => []LeaseOwnership
<1>1. IInv => LeaseOwnership
  BY ConstantsAssumption DEF IInv, TypeOK, HandInv, LeaseInv, LeaseOwnership, HoldsLease
<1> QED BY <1>1, Inductive, PTL

-----------------------------------------------------------------------------
(* Dedupe keys and deliveries.                                             *)

KeyInv ==
    /\ OneLiveRowPerKey
    /\ \A j \in keyed : KeyOf[j] # NoKey /\ status[j] \in {"queued", "processing"}
    /\ \A j \in Jobs : status[j] = "conflict" => KeyOf[j] # NoKey

\* Who is about to write a success has delivered; a job in hand has a row.
DeliveryInv ==
    /\ SucceededWasDelivered
    /\ \A w \in Workers : pc[w] = "done" => job[w] \in delivered
    /\ \A w \in Workers : pc[w] \in Holding => status[job[w]] \in RowStatus
    /\ FailedOnlyWhenExhausted

\* Key and delivery invariants are kept by every step.
LEMMA NextKeyDelivery ==
    IInv /\ KeyInv /\ DeliveryInv /\ [Next]_vars => KeyInv' /\ DeliveryInv'
<1> SUFFICES ASSUME IInv, KeyInv, DeliveryInv, [Next]_vars PROVE KeyInv' /\ DeliveryInv'
  OBVIOUS
<1> USE ConstantsAssumption DEF IInv, TypeOK, KeyInv, OneLiveRowPerKey, DeliveryInv, SucceededWasDelivered,
                                FailedOnlyWhenExhausted, RowStatus, Holding
<1>1. ASSUME NEW j \in Jobs, NEW d \in EnqueueDelays, InsertJob(j, d) PROVE KeyInv' /\ DeliveryInv'
  BY <1>1 DEF InsertJob, KeyHolders, worker, hand, bounds, HandInv
<1>2. ASSUME NEW j \in Jobs, LookUpDuplicate(j) PROVE KeyInv' /\ DeliveryInv'
  BY <1>2 DEF LookUpDuplicate, worker, hand, bounds, HandInv
<1>3. ASSUME NEW w \in Workers, WorkerStep(w) PROVE KeyInv' /\ DeliveryInv'
  <2>1. CASE StartTick(w) \/ EndTick(w) \/ StartJobWorker(w) \/ StopJobWorker(w) \/ HandlerCompletes(w) \/ HandlerThrows(w)
    BY <2>1 DEF StartTick, EndTick, StartJobWorker, StopJobWorker, HandlerCompletes, HandlerThrows, row, hand, bounds, HandInv
  <2>2. CASE ClaimNextJob(w)
    <3>1. PICK j \in Jobs : Claimable(j) /\ ClaimRow(w, j, NewToken(j))
      BY <2>2 DEF ClaimNextJob, Candidates
    <3> QED BY <2>2, <3>1 DEF ClaimNextJob, ClaimRow, Claimable, HandInv
  <2>3. CASE DeferJob(w)
    BY <2>3 DEF DeferJob, HoldsLease, PutDown, Release, hand, HandInv
  <2>4. CASE MarkJobSucceeded(w)
    <3>1. job[w] \in Jobs /\ job[w] \in delivered
      BY <2>4 DEF MarkJobSucceeded, HandInv
    <3>2. PutDown(w) /\ delivered' = delivered /\ WriteSucceeded(w)
      BY <2>4 DEF MarkJobSucceeded
    <3> QED BY <3>1, <3>2 DEF WriteSucceeded, PutDown, HoldsLease, HandInv, row
  <2>5. CASE MarkJobFailed(w)
    <3>1. job[w] \in Jobs
      BY <2>5 DEF MarkJobFailed, HandInv
    <3>2. PutDown(w) /\ delivered' = delivered /\ WriteFailed(w)
      BY <2>5 DEF MarkJobFailed
    <3>3. HoldsLease(w) => snap[w] = attempts[job[w]]
      BY DEF LeaseInv
    <3> QED BY <3>1, <3>2, <3>3 DEF WriteFailed, PutDown, HoldsLease, HandInv, row
  <2>6. CASE MarkSucceededThrows(w)
    <3>1. job[w] \in Jobs /\ job[w] \in delivered
      BY <2>6 DEF MarkSucceededThrows, HandInv
    <3> QED BY <2>6, <3>1 DEF MarkSucceededThrows, WriteSucceeded, HoldsLease, HandInv, row, hand
  <2>7. CASE MarkFailedThrows(w)
    <3>1. job[w] \in Jobs
      BY <2>7 DEF MarkFailedThrows, HandInv
    <3>2. HoldsLease(w) => snap[w] = attempts[job[w]]
      BY DEF LeaseInv
    <3> QED BY <2>7, <3>1, <3>2 DEF MarkFailedThrows, WriteFailed, HoldsLease, HandInv, row
  <2>8. CASE Exit(w) \/ Crash(w)
    BY <2>8 DEF Exit, Crash, LoseProcess, row, HandInv
  <2> QED BY <1>3, <2>1, <2>2, <2>3, <2>4, <2>5, <2>6, <2>7, <2>8 DEF WorkerStep, Work
<1>4. CASE Tick
  BY <1>4 DEF Tick, worker, hand, bounds
<1>5. CASE UNCHANGED vars
  BY <1>5 DEF vars, row, worker, hand, bounds
<1> QED BY <1>1, <1>2, <1>3, <1>4, <1>5 DEF Next

LEMMA InitKeyDelivery == Init => KeyInv /\ DeliveryInv
BY ConstantsAssumption DEF Init, KeyInv, OneLiveRowPerKey, DeliveryInv, SucceededWasDelivered, FailedOnlyWhenExhausted, Holding

THEOREM KeyDeliveryInductive == Spec => [](IInv /\ KeyInv /\ DeliveryInv)
<1> QED BY InitIInv, NextIInv, InitKeyDelivery, NextKeyDelivery, PTL DEF Spec

\* At most one live row carries a dedupe key, and every live row with a key holds it.
THEOREM OneLiveRowPerKeyHolds == Spec => []OneLiveRowPerKey
<1> QED BY KeyDeliveryInductive, PTL DEF KeyInv

\* A success follows a completed handler.
THEOREM SucceededWasDeliveredHolds == Spec => []SucceededWasDelivered
<1> QED BY KeyDeliveryInductive, PTL DEF DeliveryInv

\* A row is given up only after maxAttempts claims.
THEOREM FailedOnlyWhenExhaustedHolds == Spec => []FailedOnlyWhenExhausted
<1> QED BY KeyDeliveryInductive, PTL DEF DeliveryInv

\* No step changes a finished row: claims take queued or processing rows, and
\* every other write of a worker is fenced by a lease, which a finished row
\* does not have.
LEMMA TerminalStep ==
    IInv /\ [Next]_vars =>
        \A j \in Jobs : status[j] \in Terminal => status'[j] = status[j] /\ attempts'[j] = attempts[j]
<1> SUFFICES ASSUME IInv, [Next]_vars, NEW j \in Jobs, status[j] \in Terminal
             PROVE  status'[j] = status[j] /\ attempts'[j] = attempts[j]
  OBVIOUS
<1> USE DEF Terminal, IInv, TypeOK
<1>1. ASSUME NEW w \in Workers, WorkerStep(w) PROVE status'[j] = status[j] /\ attempts'[j] = attempts[j]
  <2>1. CASE ClaimNextJob(w)
    <3>1. PICK k \in Jobs : Claimable(k) /\ ClaimRow(w, k, NewToken(k))
      BY <2>1 DEF ClaimNextJob, Candidates
    <3> QED BY <3>1 DEF ClaimRow, Claimable
  <2>2. CASE Work(w)
    BY <2>2 DEF Work, HandlerCompletes, HandlerThrows, DeferJob, MarkJobSucceeded, MarkJobFailed,
                MarkSucceededThrows, MarkFailedThrows, WriteSucceeded, WriteFailed, HoldsLease, row
  <2> QED BY <1>1, <2>1, <2>2 DEF WorkerStep, StartTick, EndTick, StopJobWorker, Exit, Crash, LoseProcess, StartJobWorker, row
<1> QED BY <1>1 DEF Next, InsertJob, LookUpDuplicate, Tick, vars, row

\* A finished row stays finished with the attempts it had.
THEOREM TerminalIsFinalHolds == Spec => TerminalIsFinal
<1> QED BY Inductive, TerminalStep, PTL DEF Spec, TerminalIsFinal

-----------------------------------------------------------------------------
(* The queue implements JobLedger.                                         *)

LEMMA InitLedger == Init => Ledger!Init
BY DEF Init, Ledger!Init, LedgerOf

\* A step that changes neither a row's status class nor what was delivered
\* stutters in the ledger.
LEMMA LedgerStutter ==
    ASSUME delivered' = delivered, \A j \in Jobs : LedgerOf(j)' = LedgerOf(j)
    PROVE  [Ledger!Next]_(Ledger!vars)
BY DEF Ledger!vars

\* An outcome update stutters or settles the row in the ledger.
LEMMA LedgerOutcome ==
    ASSUME IInv, DeliveryInv, NEW w \in Workers, job[w] \in Jobs, delivered' = delivered,
           (job[w] \in delivered /\ WriteSucceeded(w)) \/ WriteFailed(w) \/ UNCHANGED row
    PROVE  [Ledger!Next]_(Ledger!vars)
<1> DEFINE j == job[w]
<1>1. CASE status' = status
  BY <1>1, LedgerStutter DEF LedgerOf
<1>2. CASE status' = [status EXCEPT ![j] = "queued"] /\ HoldsLease(w)
  BY <1>2, LedgerStutter DEF LedgerOf, HoldsLease, IInv, TypeOK
<1>3. CASE /\ HoldsLease(w)
           /\ \/ j \in delivered /\ status' = [status EXCEPT ![j] = "succeeded"]
              \/ status' = [status EXCEPT ![j] = "failed"]
  <2>1. Ledger!Settle(j)
    BY <1>3 DEF Ledger!Settle, LedgerOf, HoldsLease, IInv, TypeOK
  <2> QED BY <2>1 DEF Ledger!Next
<1> QED BY <1>1, <1>2, <1>3 DEF WriteSucceeded, WriteFailed, row

LEMMA LedgerStep ==
    IInv /\ IInv' /\ KeyInv /\ DeliveryInv /\ [Next]_vars => [Ledger!Next]_(Ledger!vars)
<1> SUFFICES ASSUME IInv, IInv', KeyInv, DeliveryInv, [Next]_vars PROVE [Ledger!Next]_(Ledger!vars)
  OBVIOUS
<1> USE ConstantsAssumption
<1>0. \A j \in Jobs : Ledger!LiveTwin(j) <=> KeyHolders(j) # {}
  BY DEF Ledger!LiveTwin, Ledger!SameKey, KeyHolders, KeyInv, OneLiveRowPerKey, IInv, TypeOK, LedgerOf, Status, RowStatus, Requested
<1>1. ASSUME NEW j \in Jobs, NEW d \in EnqueueDelays, InsertJob(j, d) PROVE [Ledger!Next]_(Ledger!vars)
  <2>1. CASE KeyHolders(j) = {}
    <3>1. Ledger!Accept(j)
      BY <1>0, <1>1, <2>1 DEF InsertJob, Ledger!Accept, LedgerOf, IInv, TypeOK
    <3> QED BY <3>1 DEF Ledger!Next
  <2>2. CASE KeyHolders(j) # {}
    BY <1>1, <2>2, LedgerStutter DEF InsertJob, LedgerOf, IInv, TypeOK
  <2> QED BY <2>1, <2>2
<1>2. ASSUME NEW j \in Jobs, LookUpDuplicate(j) PROVE [Ledger!Next]_(Ledger!vars)
  <2>1. CASE KeyHolders(j) = {}
    <3>1. Ledger!Refuse(j)
      BY <1>2, <2>1 DEF LookUpDuplicate, Ledger!Refuse, LedgerOf, IInv, TypeOK, KeyInv
    <3> QED BY <3>1 DEF Ledger!Next
  <2>2. CASE KeyHolders(j) # {}
    <3>1. Ledger!Coalesce(j)
      BY <1>0, <1>2, <2>2 DEF LookUpDuplicate, Ledger!Coalesce, LedgerOf, IInv, TypeOK
    <3> QED BY <3>1 DEF Ledger!Next
  <2> QED BY <2>1, <2>2
<1>3. ASSUME NEW w \in Workers, WorkerStep(w) PROVE [Ledger!Next]_(Ledger!vars)
  <2>1. CASE StartTick(w) \/ EndTick(w) \/ StartJobWorker(w) \/ StopJobWorker(w) \/ HandlerThrows(w) \/ Exit(w) \/ Crash(w)
    BY <2>1, LedgerStutter DEF StartTick, EndTick, StartJobWorker, StopJobWorker, HandlerThrows, Exit, Crash, LoseProcess, row, LedgerOf
  <2>2. CASE ClaimNextJob(w)
    <3>1. PICK j \in Jobs : Claimable(j) /\ ClaimRow(w, j, NewToken(j))
      BY <2>2 DEF ClaimNextJob, Candidates
    <3> QED BY <2>2, <3>1, LedgerStutter DEF ClaimNextJob, ClaimRow, Claimable, LedgerOf, IInv, TypeOK
  <2>3. CASE HandlerCompletes(w)
    <3>1. job[w] \in Jobs /\ status[job[w]] \in RowStatus
      BY <2>3 DEF HandlerCompletes, IInv, HandInv, DeliveryInv, Holding
    <3>2. Ledger!Deliver(job[w])
      BY <2>3, <3>1 DEF HandlerCompletes, row, Ledger!Deliver, LedgerOf, RowStatus, IInv, TypeOK
    <3> QED BY <3>1, <3>2 DEF Ledger!Next
  <2>4. CASE DeferJob(w)
    BY <2>4, LedgerStutter DEF DeferJob, HoldsLease, LedgerOf, IInv, TypeOK
  <2>5. CASE MarkJobSucceeded(w) \/ MarkJobFailed(w) \/ MarkSucceededThrows(w) \/ MarkFailedThrows(w)
    <3>1. job[w] \in Jobs
      BY <2>5 DEF MarkJobSucceeded, MarkJobFailed, MarkSucceededThrows, MarkFailedThrows, IInv, HandInv, Holding
    <3>2. delivered' = delivered
      BY <2>5 DEF MarkJobSucceeded, MarkJobFailed, MarkSucceededThrows, MarkFailedThrows
    <3>3. (job[w] \in delivered /\ WriteSucceeded(w)) \/ WriteFailed(w) \/ UNCHANGED row
      BY <2>5 DEF MarkJobSucceeded, MarkJobFailed, MarkSucceededThrows, MarkFailedThrows, DeliveryInv
    <3> QED BY <3>1, <3>2, <3>3, LedgerOutcome
  <2> QED BY <1>3, <2>1, <2>2, <2>3, <2>4, <2>5 DEF WorkerStep, Work
<1>4. CASE Tick
  BY <1>4, LedgerStutter DEF Tick, LedgerOf
<1>5. CASE UNCHANGED vars
  BY <1>5, LedgerStutter DEF vars, row, LedgerOf
<1> QED BY <1>1, <1>2, <1>3, <1>4, <1>5 DEF Next

\* Whatever crashes, reclaims and retries happen, the queue keeps the promise
\* of JobLedger: each step of it is a step of the ledger or a stutter.
THEOREM KeepsLedgerHolds == Spec => KeepsLedger
<1> QED BY KeyDeliveryInductive, InitLedger, LedgerStep, PTL DEF Spec, KeepsLedger, Ledger!Safe
=============================================================================
