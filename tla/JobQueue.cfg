\* Two requests for the same work, two processes, one fault.
CONSTANTS
    j1 = j1  j2 = j2  k1 = k1
    Jobs = {j1, j2}
    Workers = {w1, w2}
    Keys = {k1}
    NoKey = NoKey
    KeyOf <- SharedKey
    Deferrable = {j1}
    Tokens = {t1, t2, t3}
    NoToken = NoToken
    NoJob = NoJob
    MaxAttempts = 2
    MaxJobsPerTick = 1
    LockTimeout = 1
    RetryBase = 1
    DeferDelay = 1
    EnqueueDelays = {0}
    Horizon = 1
    MaxFaults = 1
    MaxDeferrals = 1
SPECIFICATION Spec
INVARIANTS TypeOK LeaseOwnership OneLiveRowPerKey
PROPERTIES KeepsLedger EveryJobSettles
