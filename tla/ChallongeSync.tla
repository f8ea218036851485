--------------------------- MODULE ChallongeSync ---------------------------
(***************************************************************************)
(* The fixtures of a tournament that mirror a Challonge bracket:           *)
(* modules/challonge/challonge-sync.service.js, challonge.jobs.js, the     *)
(* saved settings of challonge-admin.service.js, and the others who write  *)
(* the status of a fixture: staff (matches/match.service.js) and the veto  *)
(* played on it (veto/veto.service.js).                                    *)
(* A sync reads the settings, takes a lease, fetches the bracket, reads    *)
(* the statuses of the fixtures, writes the fixtures in one transaction    *)
(* and then gives the lease back and says when the next sync is due.  What *)
(* it writes last rests on what it read first, and nothing it writes asks  *)
(* whether the lease is still its own.  A fetch of several pages is one    *)
(* read here, and participants are part of a fixture's data.               *)
(***************************************************************************)
EXTENDS Naturals, Sequences

CONSTANTS
    Fixtures,       \* the matches of the bracket
    SyncEvery,      \* ticks between automatic syncs, also after a failure
    LeaseTime,      \* ticks a lease lasts
    Handled,        \* the matches that staff edit and a veto is played on
    StaffTargets,   \* the statuses of its own that staff give a fixture
    Manuals,        \* the synchronisations staff can have under way
    MaxVersion,     \* bound: versions of the bracket
    MaxFaults       \* bound: processes that stop and fetches that fail

\* The statuses that are the site's own while Challonge does not say complete.
LOCAL_OPERATIONAL_STATUSES ==
    {"check_in_open", "veto_starting_soon", "veto_in_progress", "ready", "delayed", "paused"}

ASSUME ChallongeAssumption ==
    /\ SyncEvery \in Nat \ {0} /\ LeaseTime \in Nat \ {0}
    /\ SyncEvery < 100 /\ LeaseTime < 100      \* never Never
    /\ MaxVersion \in Nat \ {0} /\ MaxFaults \in Nat
    /\ StaffTargets \subseteq LOCAL_OPERATIONAL_STATUSES
    /\ "scheduled" \notin Manuals /\ Handled \subseteq Fixtures

VARIABLES
    bracket,   \* the versions of the bracket on Challonge, the last one current
    status,    \* the status of the row of each fixture
    copied,    \* the version the rows were written from, 0 before any
    conn,      \* the integration: whether automatic, the next sync, the lease
    over,      \* whether the tournament is completed, and how
    edit,      \* the status an edit under way has read, "absent" without one
    veto,      \* the status before the veto room was made, "absent" without one
    job,       \* the queued synchronisation
    sync,      \* the synchronisation of the job and those staff ask for
    faults

beside == <<edit, veto>>
vars == <<bracket, status, copied, conn, over, beside, job, sync, faults>>

\* Times are the ticks left; 0 is due or free.
Never == 100
Syncs == Manuals \union {"scheduled"}
UpStates == {"absent", "pending", "open", "underway", "complete"}

\* late is history, not a column: the sync has outlived its lease, or took it
\* while one that had was still at work.
Idle == [at |-> "idle", repeats |-> FALSE, version |-> 0,
         saw |-> [f \in Fixtures |-> "absent"], late |-> FALSE]

Statuses == LOCAL_OPERATIONAL_STATUSES \union {"absent", "scheduled", "live", "completed"}

TypeOK ==
    /\ bracket \in Seq([state: [Fixtures -> UpStates], done: BOOLEAN])
    /\ Len(bracket) \in 1..MaxVersion
    /\ status \in [Fixtures -> Statuses]
    /\ copied \in 0..Len(bracket)
    /\ conn.automatic \in BOOLEAN
    /\ conn.due \in 0..SyncEvery \union 0..LeaseTime \union {Never}
    /\ conn.lease \in 0..LeaseTime
    /\ over \in {"no", "synced", "by staff"}
    /\ edit \in [Fixtures -> Statuses] /\ veto \in [Fixtures -> Statuses]
    /\ job \in {"none", "queued", "running"}
    /\ \A w \in Syncs :
         /\ sync[w].at \in {"idle", "settings", "claimed", "fetched", "read", "written"}
         /\ sync[w].repeats \in BOOLEAN /\ sync[w].version \in 0..Len(bracket)
         /\ sync[w].saw \in [Fixtures -> Statuses] /\ sync[w].late \in BOOLEAN
    /\ faults \in 0..MaxFaults

Init ==
    /\ bracket = <<[state |-> [f \in Fixtures |-> "pending"], done |-> FALSE]>>
    /\ status = [f \in Fixtures |-> "absent"]
    /\ copied = 0
    /\ conn \in [automatic: {TRUE}, due: {0}, lease: {0}]
    /\ over = "no"
    /\ edit = status /\ veto = status
    /\ job = "none"
    /\ sync = [w \in Syncs |-> Idle]
    /\ faults = 0

-----------------------------------------------------------------------------
(* The bracket.                                                            *)

Current == bracket[Len(bracket)]

Later(s) ==
    CASE s = "absent"   -> {"pending"}
      [] s = "pending"  -> {"open", "absent"}
      [] s = "open"     -> {"complete", "underway"}
      [] s = "underway" -> {"complete"}
      [] OTHER -> {}

\* A fixture of the bracket moves on, appears or goes.
BracketMoves ==
    /\ Len(bracket) < MaxVersion /\ ~Current.done
    /\ \E f \in Fixtures : \E s \in Later(Current.state[f]) :
         bracket' = Append(bracket, [Current EXCEPT !.state[f] = s])
    /\ UNCHANGED <<status, copied, conn, over, job, sync, faults, beside>>

\* The bracket is finalised on Challonge, or from here, which also completes
\* the tournament (changeChallongeTournamentState).
Finalise(how) ==
    /\ Len(bracket) < MaxVersion /\ ~Current.done
    /\ bracket' = Append(bracket, [Current EXCEPT !.done = TRUE])
    /\ over' = how
    /\ UNCHANGED <<status, copied, conn, job, sync, faults, beside>>

\* Mutant: Challonge's own word is stored.
RawStatus(s) == s

mapChallongeStatus(s) ==
    CASE s = "complete" -> "completed"
      [] s = "underway" -> "live"
      [] s = "open"     -> "ready"
      [] s = "pending"  -> "scheduled"
      [] s = "absent"   -> "absent"

-----------------------------------------------------------------------------
(* Staff, and the veto.                                                    *)

\* updateMatch reads the match, ...
ReadsMatch(f) ==
    /\ status[f] # "absent" /\ edit[f] = "absent"
    /\ edit' = [edit EXCEPT ![f] = status[f]]
    /\ UNCHANGED <<bracket, status, copied, conn, over, veto, job, sync, faults>>

\* Mutant: any status of a match is let through, a result too.
AnyStatusUpdate(f) ==
    /\ edit[f] # "absent"
    /\ \E to \in StaffTargets \union {edit[f], "completed"} :
         status' = [status EXCEPT ![f] = to]
    /\ edit' = [edit EXCEPT ![f] = "absent"]
    /\ UNCHANGED <<bracket, copied, conn, over, veto, job, sync, faults>>

\* ... refuses a linked fixture any status but an operational one and the one it
\* has read, and writes later, whatever the status is by then.
UpdateMatch(f) ==
    /\ edit[f] # "absent"
    /\ \E to \in StaffTargets \union {edit[f]} : status' = [status EXCEPT ![f] = to]
    /\ edit' = [edit EXCEPT ![f] = "absent"]
    /\ UNCHANGED <<bracket, copied, conn, over, veto, job, sync, faults>>

\* createRoom and ensureMatchVetoRoom, the first or another after the room was
\* deleted: the room remembers the status of the match.
MakesVetoRoom(f) ==
    /\ status[f] \notin {"absent", "completed"}
    /\ veto' = [veto EXCEPT ![f] = status[f]]
    /\ UNCHANGED <<bracket, status, copied, conn, over, edit, job, sync, faults>>

\* What a room makes of the status of its match (the calls of syncMatchStatus).
\* When it does is VetoRoom's; here it may at any time.
VetoMoves ==
    ({"scheduled", "check_in_open"} \X {"veto_starting_soon"})
    \union ({"veto_starting_soon"} \X {"veto_in_progress", "ready"})
    \union ({"veto_in_progress"} \X {"veto_starting_soon", "ready"})
    \union ({"ready"} \X {"veto_starting_soon", "veto_in_progress"})

VetoMovesMatch(f) ==
    /\ veto[f] # "absent"
    /\ \E to \in Statuses :
         /\ <<status[f], to>> \in VetoMoves
         /\ status' = [status EXCEPT ![f] = to]
    /\ UNCHANGED <<bracket, copied, conn, over, beside, job, sync, faults>>

\* cancelRoom: a match that still waits on the veto gets its old status back.
CancelVeto(f) ==
    /\ veto[f] # "absent" /\ status[f] \in {"veto_starting_soon", "veto_in_progress"}
    /\ status' = [status EXCEPT ![f] = veto[f]]
    /\ UNCHANGED <<bracket, copied, conn, over, beside, job, sync, faults>>

\* saveAdminIntegration: an automatic connection is due at once.
SaveAdminIntegration(automatic) ==
    /\ conn' = [conn EXCEPT !.automatic = automatic,
                  !.due = IF automatic /\ over = "no" THEN 0 ELSE Never]
    /\ UNCHANGED <<bracket, status, copied, over, job, sync, faults, beside>>

-----------------------------------------------------------------------------
(* The scheduler and the job.                                              *)

Fault == faults < MaxFaults /\ faults' = faults + 1

\* claimDueIntegrationsForQueue: the next sync is pushed away for a lease, so
\* that a job that never runs is made again.
ClaimDue ==
    /\ conn.automatic /\ conn.due = 0 /\ conn.lease = 0 /\ over = "no"
    /\ conn' = [conn EXCEPT !.due = LeaseTime]
    /\ UNCHANGED <<bracket, status, copied, over, sync, beside>>

\* The job is queued unless one is live.
SchedulerTick ==
    /\ ClaimDue
    /\ job' = IF job = "none" THEN "queued" ELSE job
    /\ UNCHANGED faults

SchedulerStops == ClaimDue /\ Fault /\ UNCHANGED job

Doing(w, at) == sync[w].at = at

\* The syncs that took the lease and are not done.
Working == {w \in Syncs : sync[w].at \in {"claimed", "fetched", "read", "written"}}

\* The lease is gone from under the syncs at work.
Outlived(gone) ==
    [w \in Syncs |-> [sync[w] EXCEPT !.late = @ \/ (gone /\ w \in Working)]]

Ends(w) ==
    /\ sync' = [sync EXCEPT ![w] = Idle]
    /\ job' = IF w = "scheduled" THEN "none" ELSE job

\* The settings are read.  A scheduled sync of a connection that is no longer
\* automatic ends here; that of a completed tournament also clears the plan.
StartSync(w) ==
    /\ Doing(w, "idle")
    /\ w = "scheduled" => job = "queued" /\ conn.automatic /\ over = "no"
    /\ sync' = [sync EXCEPT ![w] = [Idle EXCEPT !.at = "settings",
                  !.repeats = conn.automatic /\ over = "no"]]
    /\ job' = IF w = "scheduled" THEN "running" ELSE job
    /\ UNCHANGED <<bracket, status, copied, conn, over, faults, beside>>

SkipScheduled ==
    /\ job = "queued" /\ Doing("scheduled", "idle")
    /\ ~conn.automatic \/ over # "no"
    /\ conn' = IF conn.automatic THEN [conn EXCEPT !.due = Never, !.lease = 0] ELSE conn
    /\ sync' = Outlived(conn.automatic)
    /\ job' = "none"
    /\ UNCHANGED <<bracket, status, copied, over, faults, beside>>

-----------------------------------------------------------------------------
(* One synchronisation.                                                    *)

\* Mutant: the lease of a running sync is overlooked.
AlwaysFree == TRUE

LeaseFree == conn.lease = 0

ClaimSyncLease(w) ==
    /\ Doing(w, "settings") /\ LeaseFree
    /\ conn' = [conn EXCEPT !.lease = LeaseTime]
    /\ sync' = [sync EXCEPT ![w].at = "claimed", ![w].late = \E v \in Working : sync[v].late]
    /\ UNCHANGED <<bracket, status, copied, over, job, faults, beside>>

AlreadyRunning(w) ==
    /\ Doing(w, "settings") /\ ~LeaseFree
    /\ Ends(w)
    /\ UNCHANGED <<bracket, status, copied, conn, over, faults, beside>>

FetchChallongeSnapshot(w) ==
    /\ Doing(w, "claimed")
    /\ sync' = [sync EXCEPT ![w].at = "fetched", ![w].version = Len(bracket)]
    /\ UNCHANGED <<bracket, status, copied, conn, over, job, faults, beside>>

NextSyncAt(repeats) == IF repeats THEN SyncEvery ELSE Never

\* A fetch that fails gives the lease back and is retried later.
FetchFails(w) ==
    /\ Doing(w, "claimed") /\ Fault
    /\ conn' = [conn EXCEPT !.lease = 0, !.due = NextSyncAt(sync[w].repeats)]
    /\ Ends(w)
    /\ UNCHANGED <<bracket, status, copied, over, beside>>

ReadMatches(w) ==
    /\ Doing(w, "fetched")
    /\ sync' = [sync EXCEPT ![w].at = "read", ![w].saw = status]
    /\ UNCHANGED <<bracket, status, copied, conn, over, job, faults, beside>>

\* The status a fixture is given: its own operational one, as read before,
\* unless Challonge says complete; its row goes with the fixture.
SyncedStatus(saw, upstream) ==
    IF saw \in LOCAL_OPERATIONAL_STATUSES /\ upstream \notin {"complete", "absent"}
    THEN saw ELSE mapChallongeStatus(upstream)

\* An edit of a row that is gone fails, and a room loses its match.
OfRows(saved) == [f \in Fixtures |-> IF status'[f] = "absent" THEN "absent" ELSE saved[f]]

SyncSnapshotToMatches(w) ==
    /\ Doing(w, "read")
    /\ status' = [f \in Fixtures |->
         SyncedStatus(sync[w].saw[f], bracket[sync[w].version].state[f])]
    /\ copied' = sync[w].version
    /\ edit' = OfRows(edit) /\ veto' = OfRows(veto)
    /\ sync' = [sync EXCEPT ![w].at = "written"]
    /\ UNCHANGED <<bracket, conn, over, job, faults>>

\* The last writes ask for no lease, so a sync that outlived its own gives back
\* that of another.
FinishSync(w) ==
    LET done == bracket[sync[w].version].done IN
    /\ Doing(w, "written")
    /\ conn' = [conn EXCEPT !.lease = 0, !.due = NextSyncAt(sync[w].repeats /\ ~done)]
    /\ over' = IF done /\ over = "no" THEN "synced" ELSE over
    /\ Ends(w)
    /\ UNCHANGED <<bracket, status, copied, faults, beside>>

\* The process stops.  The queue runs the job again; the lease stays.
SyncStops(w) ==
    /\ sync[w].at # "idle" /\ Fault
    /\ sync' = [sync EXCEPT ![w] = Idle]
    /\ job' = IF w = "scheduled" THEN "queued" ELSE job
    /\ UNCHANGED <<bracket, status, copied, conn, over, beside>>

\* Mutant: a lease ends only when it is given back.
HeldLease(left) == left

LeaseAfter(left) == IF left = 0 THEN 0 ELSE left - 1

\* Time passes.  A sync may outlive its lease: a request is timed up to the
\* headers alone (fetchWithTimeout), and a snapshot is many requests.
Tick ==
    /\ conn' = [conn EXCEPT !.lease = LeaseAfter(@),
                  !.due = IF @ \in {0, Never} THEN @ ELSE @ - 1]
    /\ sync' = Outlived(conn.lease = 1)
    /\ UNCHANGED <<bracket, status, copied, over, beside, job, faults>>

-----------------------------------------------------------------------------
SyncSteps(w) ==
    \/ ClaimSyncLease(w) \/ AlreadyRunning(w) \/ FetchChallongeSnapshot(w)
    \/ ReadMatches(w) \/ SyncSnapshotToMatches(w) \/ FinishSync(w)

Next ==
    \/ BracketMoves
    \/ \E how \in {over, "by staff"} : Finalise(how)
    \/ \E f \in Handled : ReadsMatch(f) \/ UpdateMatch(f) \/ MakesVetoRoom(f)
                           \/ VetoMovesMatch(f) \/ CancelVeto(f)
    \/ \E automatic \in BOOLEAN : SaveAdminIntegration(automatic)
    \/ SchedulerTick \/ SchedulerStops \/ SkipScheduled \/ Tick
    \/ \E w \in Syncs : StartSync(w) \/ SyncSteps(w) \/ FetchFails(w) \/ SyncStops(w)

Spec == Init /\ [][Next]_vars

\* The scheduler ticks every thirty seconds, the worker runs what is queued,
\* and a sync under way goes on: every request is answered in the end.
Fairness ==
    /\ WF_vars(Tick)
    /\ WF_vars(SchedulerTick)
    /\ WF_vars(SkipScheduled)
    /\ WF_vars(StartSync("scheduled"))
    /\ \A w \in Syncs : WF_vars(SyncSteps(w))

FairSpec == Spec /\ Fairness

-----------------------------------------------------------------------------
(* What holds.                                                             *)

\* The rows are the fixtures of the version copied last, and a status that is
\* not the site's own is one Challonge has given the fixture at some time: no
\* stale save, cancelled veto or late sync makes up a state or a result.
RowsFromBracket == copied # 0 => \A f \in Fixtures :
    /\ status[f] = "absent" <=> bracket[copied].state[f] = "absent"
    /\ status[f] \notin LOCAL_OPERATIONAL_STATUSES =>
         \E v \in 1..Len(bracket) : status[f] = mapChallongeStatus(bracket[v].state[f])

\* A sync puts an older bracket over a newer one only when it has outlived its
\* lease, or works beside one that has.
NeverBackwards == [][\A w \in Syncs :
    SyncSnapshotToMatches(w) /\ ~sync[w].late => copied' >= copied]_vars

Unplanned == over = "no" /\ (~conn.automatic \/ conn.due = Never)

\* The rows come to the bracket as it is and stay there, through failed fetches,
\* processes that stop and syncs that outlive their lease; unless no sync is
\* planned any more, because the connection is manual or a sync that began when
\* it was ended after it was made automatic; or staff finalised the bracket from
\* here, or a late sync is still at work when the bracket is final.
FixturesConverge ==
    \/ <>[](copied = Len(bracket))
    \/ []<>Unplanned
    \/ <>(over = "by staff")
    \/ <>(Current.done /\ \E w \in Working : sync[w].late)

=============================================================================
