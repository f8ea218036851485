------------------------ MODULE ChallongeSyncProofs ------------------------
(***************************************************************************)
(* Theorems about ChallongeSync, for any bracket, any number of requests   *)
(* of staff, any lease and any bound.                                      *)
(***************************************************************************)
EXTENDS ChallongeSync, TLAPS

Version  == [state: [Fixtures -> UpStates], done: BOOLEAN]
DueType  == 0..SyncEvery \union 0..LeaseTime \union {Never}
ConnType == [automatic: BOOLEAN, due: DueType, lease: 0..LeaseTime]
SyncType == [at: {"idle", "settings", "claimed", "fetched", "read", "written"},
             repeats: BOOLEAN, version: 0..Len(bracket), saw: [Fixtures -> Statuses],
             late: BOOLEAN]

\* A sync that has fetched holds a version of the bracket.
Typed ==
    /\ bracket \in Seq(Version) /\ Len(bracket) \in 1..MaxVersion
    /\ status \in [Fixtures -> Statuses]
    /\ copied \in 0..Len(bracket)
    /\ conn \in ConnType
    /\ over \in {"no", "synced", "by staff"}
    /\ edit \in [Fixtures -> Statuses] /\ veto \in [Fixtures -> Statuses]
    /\ job \in {"none", "queued", "running"}
    /\ sync \in [Syncs -> SyncType]
    /\ faults \in 0..MaxFaults
    /\ \A w \in Syncs : sync[w].at \in {"fetched", "read", "written"} => sync[w].version # 0

\* A sync that has not outlived its lease, nor works beside one that has, works
\* alone, under a lease that is not over, and what it has fetched is no older than
\* the rows.
Alone == \A w \in Working : ~sync[w].late =>
    /\ Working = {w} /\ conn.lease # 0
    /\ sync[w].at # "claimed" => sync[w].version >= copied

\* The statuses fixture f may have: the site's own, and what Challonge has said.
KnownTo(f) == LOCAL_OPERATIONAL_STATUSES \union {"absent"}
    \union {mapChallongeStatus(bracket[v].state[f]) : v \in 1..Len(bracket)}

\* Whatever has been read to be written later is such a status too, and an edit
\* or a veto has a row.
RowsInv == \A f \in Fixtures :
    /\ {status[f], edit[f], veto[f]} \subseteq KnownTo(f)
    /\ \A w \in Syncs : sync[w].saw[f] \in KnownTo(f)
    /\ status[f] = "absent" => edit[f] = "absent" /\ veto[f] = "absent"
    /\ copied # 0 => (status[f] = "absent" <=> bracket[copied].state[f] = "absent")

-----------------------------------------------------------------------------
LEMMA TypedIsTypeOK == Typed => TypeOK
  BY DEF Typed, TypeOK, Version, ConnType, DueType, SyncType

\* Times.
LEMMA TimesGiven ==
    /\ 0 \in DueType /\ LeaseTime \in DueType /\ SyncEvery \in DueType /\ Never \in DueType
    /\ 0 \in 0..LeaseTime /\ LeaseTime \in 0..LeaseTime /\ LeaseTime # 0
    /\ \A d \in DueType : (IF d \in {0, Never} THEN d ELSE d - 1) \in DueType
    /\ \A l \in 0..LeaseTime : LeaseAfter(l) \in 0..LeaseTime
    /\ \A l \in 0..LeaseTime : l \notin {0, 1} => LeaseAfter(l) # 0
    /\ \A repeats : NextSyncAt(repeats) \in DueType
  BY ChallongeAssumption DEF DueType, Never, LeaseAfter, NextSyncAt

\* The bracket has a current version and all the earlier ones.
LEMMA BracketGiven ==
    ASSUME Typed
    PROVE  /\ Len(bracket) \in Nat \ {0} /\ Current \in Version
           /\ 0 \in 0..Len(bracket) /\ Len(bracket) \in 0..Len(bracket)
           /\ \A v \in 0..Len(bracket) :
                /\ v # 0 => v \in 1..Len(bracket) /\ bracket[v] \in Version
                /\ Len(bracket) >= v
  <1>1. bracket \in Seq(Version) /\ Len(bracket) \in Nat \ {0}
    <2>1. bracket \in Seq(Version) /\ Len(bracket) \in 1..MaxVersion
      BY DEF Typed
    <2>2. \A n \in 1..MaxVersion : n \in Nat \ {0}
      BY ChallongeAssumption
    <2> QED BY <2>1, <2>2
  <1> DEFINE n == Len(bracket)
  <1>2. /\ n \in 1..n /\ 0 \in 0..n /\ n \in 0..n
        /\ \A v \in 0..n : n >= v /\ (v # 0 => v \in 1..n)
    BY <1>1
  <1>3. \A v \in 1..n : bracket[v] \in Version
    BY <1>1
  <1> QED BY <1>1, <1>2, <1>3 DEF Current

\* A version is appended.
LEMMA BracketGrows ==
    ASSUME Typed, NEW v \in Version, bracket' = Append(bracket, v), Len(bracket) < MaxVersion
    PROVE  /\ bracket' \in Seq(Version) /\ Len(bracket') = Len(bracket) + 1
           /\ Len(bracket') \in 1..MaxVersion /\ 0..Len(bracket) \subseteq 0..Len(bracket')
           /\ \A n \in 1..Len(bracket) : bracket'[n] = bracket[n]
  <1>1. bracket \in Seq(Version) /\ Len(bracket) \in Nat
    BY BracketGiven DEF Typed
  <1>2. bracket' \in Seq(Version) /\ Len(bracket') = Len(bracket) + 1
    BY <1>1
  <1>3. \A n \in 1..Len(bracket) : bracket'[n] = bracket[n]
    BY <1>1
  <1> QED BY <1>1, <1>2, <1>3, ChallongeAssumption

LEMMA MapGiven ==
    /\ \A s \in UpStates : mapChallongeStatus(s) \in Statuses
    /\ \A s \in UpStates : mapChallongeStatus(s) = "absent" <=> s = "absent"
    /\ LOCAL_OPERATIONAL_STATUSES \subseteq Statuses /\ "absent" \notin LOCAL_OPERATIONAL_STATUSES
  BY DEF mapChallongeStatus, UpStates, Statuses, LOCAL_OPERATIONAL_STATUSES

\* The status a sync writes is one of the site's or Challonge's own.
LEMMA SyncedGiven ==
    ASSUME NEW saw \in Statuses, NEW s \in UpStates
    PROVE  /\ SyncedStatus(saw, s) \in Statuses
           /\ SyncedStatus(saw, s) = "absent" <=> s = "absent"
           /\ SyncedStatus(saw, s) \in LOCAL_OPERATIONAL_STATUSES \union {mapChallongeStatus(s)}
  BY MapGiven DEF SyncedStatus

LEMMA InitTyped == Init => Typed /\ Alone /\ RowsInv
  <1> SUFFICES ASSUME Init PROVE Typed /\ Alone /\ RowsInv
    OBVIOUS
  <1>1. Typed
    <2>1. [f \in Fixtures |-> "pending"] \in [Fixtures -> UpStates]
      BY DEF UpStates
    <2>2. bracket \in Seq(Version) /\ Len(bracket) = 1
      BY <2>1 DEF Init, Version
    <2>3. conn \in ConnType
      BY TimesGiven DEF Init, ConnType
    <2>4. "absent" \in Statuses
      BY DEF Statuses
    <2> QED BY <2>2, <2>3, <2>4, ChallongeAssumption DEF Init, Typed, SyncType, Idle
  <1>2. Alone
    BY DEF Init, Alone, Working, Idle
  <1>3. RowsInv
    BY DEF Init, RowsInv, KnownTo, Idle
  <1> QED BY <1>1, <1>2, <1>3

-----------------------------------------------------------------------------
(* The steps of a sync, seen from the record it keeps.                     *)

\* A sync goes to a record of the right type; the others stay.
LEMMA SyncMoves ==
    ASSUME Typed, UNCHANGED bracket, NEW w \in Syncs, NEW s \in SyncType,
           s.at \in {"fetched", "read", "written"} => s.version # 0,
           sync' = [sync EXCEPT ![w] = s]
    PROVE  /\ sync' \in [Syncs -> SyncType'] /\ sync'[w] = s
           /\ \A v \in Syncs : sync'[v].at \in {"fetched", "read", "written"} =>
                 sync'[v].version # 0
           /\ \A v \in Syncs \ {w} : sync'[v] = sync[v]
  <1>1. SyncType' = SyncType
    BY DEF SyncType
  <1> QED BY <1>1 DEF Typed

LEMMA IdleGiven == ASSUME Typed PROVE Idle \in SyncType /\ Idle.at = "idle"
  <1>1. "absent" \in Statuses /\ 0 \in 0..Len(bracket)
    BY BracketGiven DEF Statuses
  <1> QED BY <1>1 DEF Idle, SyncType

\* Edits and vetoes remember statuses.
LEMMA BesideStep ==
    ASSUME Typed, [Next]_vars
    PROVE  edit' \in [Fixtures -> Statuses] /\ veto' \in [Fixtures -> Statuses]
  <1>a. /\ "absent" \in Statuses /\ status \in [Fixtures -> Statuses]
        /\ edit \in [Fixtures -> Statuses] /\ veto \in [Fixtures -> Statuses]
    BY DEF Statuses, Typed
  <1>1. ASSUME NEW f \in Fixtures,
               ReadsMatch(f) \/ UpdateMatch(f) \/ MakesVetoRoom(f)
               \/ VetoMovesMatch(f) \/ CancelVeto(f)
        PROVE  edit' \in [Fixtures -> Statuses] /\ veto' \in [Fixtures -> Statuses]
    BY <1>a, <1>1 DEF ReadsMatch, UpdateMatch, MakesVetoRoom, VetoMovesMatch, CancelVeto, beside
  <1>2. ASSUME NEW w \in Syncs, SyncSnapshotToMatches(w)
        PROVE  edit' \in [Fixtures -> Statuses] /\ veto' \in [Fixtures -> Statuses]
    BY <1>a, <1>2 DEF SyncSnapshotToMatches, OfRows
  <1>3. \/ UNCHANGED beside
        \/ \E f \in Fixtures : ReadsMatch(f) \/ UpdateMatch(f) \/ MakesVetoRoom(f)
                              \/ VetoMovesMatch(f) \/ CancelVeto(f)
        \/ \E w \in Syncs : SyncSnapshotToMatches(w)
    BY ChallongeAssumption
       DEF Next, SyncSteps, BracketMoves, Finalise, SaveAdminIntegration, SchedulerTick,
           SchedulerStops, ClaimDue, SkipScheduled, Tick, StartSync, ClaimSyncLease,
           AlreadyRunning, FetchChallongeSnapshot, ReadMatches, FinishSync, FetchFails,
           SyncStops, vars
  <1> QED BY <1>a, <1>1, <1>2, <1>3 DEF beside

\* A sync that loses its lease keeps all but that.
LEMMA OutlivedGiven ==
    ASSUME Typed, NEW gone \in BOOLEAN, sync' = Outlived(gone), UNCHANGED bracket
    PROVE  /\ sync' \in [Syncs -> SyncType']
           /\ \A w \in Syncs :
                /\ sync'[w].at = sync[w].at /\ sync'[w].version = sync[w].version
                /\ sync'[w].saw = sync[w].saw
                /\ sync'[w].late = (sync[w].late \/ (gone /\ w \in Working))
           /\ Working' = Working
  <1>1. sync \in [Syncs -> SyncType] /\ SyncType' = SyncType
    BY DEF Typed, SyncType
  <1>2. \A w \in Syncs :
          sync'[w] = [sync[w] EXCEPT !.late = @ \/ (gone /\ w \in Working)]
    BY DEF Outlived
  <1>3. ASSUME NEW w \in Syncs
        PROVE  /\ sync'[w] \in SyncType
               /\ sync'[w].at = sync[w].at /\ sync'[w].version = sync[w].version
               /\ sync'[w].saw = sync[w].saw
               /\ sync'[w].late = (sync[w].late \/ (gone /\ w \in Working))
    <2> DEFINE l == sync[w].late \/ (gone /\ w \in Working)
    <2>1. l \in BOOLEAN
      OBVIOUS
    <2>2. sync'[w] = [sync[w] EXCEPT !.late = l] /\ sync[w] \in SyncType
      BY <1>1, <1>2
    <2> HIDE DEF l
    <2>3. /\ sync'[w] \in SyncType /\ sync'[w].late = l
          /\ sync'[w].at = sync[w].at /\ sync'[w].version = sync[w].version
          /\ sync'[w].saw = sync[w].saw
      BY <2>1, <2>2 DEF SyncType
    <2> QED BY <2>3 DEF l
  <1>4. sync' \in [Syncs -> SyncType]
    BY <1>3 DEF Outlived
  <1>5. Working' = Working
    BY <1>3 DEF Working
  <1> QED BY <1>1, <1>3, <1>4, <1>5

LEMMA TypedStep == Typed /\ [Next]_vars => Typed'
  <1> SUFFICES ASSUME Typed, [Next]_vars PROVE Typed'
    OBVIOUS
  <1> USE ChallongeAssumption
  <1>a. /\ bracket \in Seq(Version) /\ Len(bracket) \in 1..MaxVersion
        /\ Current \in Version /\ conn \in ConnType /\ Len(bracket) \in Nat
        /\ status \in [Fixtures -> Statuses] /\ copied \in 0..Len(bracket)
        /\ sync \in [Syncs -> SyncType]
    BY BracketGiven DEF Typed
  <1>b. ASSUME UNCHANGED bracket, status' \in [Fixtures -> Statuses], copied' \in 0..Len(bracket),
               conn' \in ConnType, over' \in {"no", "synced", "by staff"},
               job' \in {"none", "queued", "running"}, sync' \in [Syncs -> SyncType'],
               faults' \in 0..MaxFaults,
               \A w \in Syncs : sync'[w].at \in {"fetched", "read", "written"} =>
                  sync'[w].version # 0
        PROVE  Typed'
    BY <1>a, <1>b, BesideStep DEF Typed, ConnType
  <1>c. ASSUME UNCHANGED <<bracket, sync>>
        PROVE  /\ sync' \in [Syncs -> SyncType']
               /\ \A w \in Syncs : sync'[w].at \in {"fetched", "read", "written"} =>
                     sync'[w].version # 0
    BY <1>c DEF Typed, SyncType
  <1>d. ASSUME Fault PROVE faults' \in 0..MaxFaults
    <2>1. faults \in Nat /\ faults < MaxFaults /\ faults' = faults + 1
      <3>1. faults \in 0..MaxFaults
        BY DEF Typed
      <3> QED BY <1>d, <3>1 DEF Fault
    <2> QED BY <2>1
  <1>e. ASSUME NEW v \in Version, bracket' = Append(bracket, v), Len(bracket) < MaxVersion,
               UNCHANGED <<status, copied, conn, job, sync, faults>>,
               over' \in {"no", "synced", "by staff"}
        PROVE  Typed'
    <2>1. /\ bracket' \in Seq(Version) /\ Len(bracket') \in 1..MaxVersion
          /\ 0..Len(bracket) \subseteq 0..Len(bracket')
      BY <1>e, BracketGrows
    <2>2. sync' \in [Syncs -> SyncType']
      <3>1. SyncType \subseteq SyncType'
        BY <1>a, <2>1 DEF SyncType
      <3> QED BY <1>a, <1>e, <3>1
    <2> QED BY <1>a, <1>e, <2>1, <2>2, BesideStep DEF Typed
  <1>1. CASE BracketMoves
    <2>0. PICK f \in Fixtures : \E s \in Later(Current.state[f]) :
             bracket' = Append(bracket, [Current EXCEPT !.state[f] = s])
      BY <1>1 DEF BracketMoves
    <2>1. PICK s \in Later(Current.state[f]) :
             bracket' = Append(bracket, [Current EXCEPT !.state[f] = s])
      BY <2>0
    <2>2. s \in UpStates
      BY <2>1 DEF Later, UpStates
    <2>3. [Current EXCEPT !.state[f] = s] \in Version
      BY <1>a, <2>2 DEF Version
    <2> QED BY <1>1, <1>e, <2>1, <2>3 DEF BracketMoves, Typed
  <1>2. ASSUME NEW how \in {over, "by staff"}, Finalise(how) PROVE Typed'
    <2>1. [Current EXCEPT !.done = TRUE] \in Version
      BY <1>a DEF Version
    <2> QED BY <1>2, <1>e, <2>1 DEF Finalise, Typed
  <1>3. ASSUME NEW f \in Fixtures,
               ReadsMatch(f) \/ UpdateMatch(f) \/ MakesVetoRoom(f)
               \/ VetoMovesMatch(f) \/ CancelVeto(f)
        PROVE  Typed'
    <2>0. edit[f] \in Statuses /\ veto[f] \in Statuses /\ StaffTargets \subseteq Statuses
      BY MapGiven DEF Typed
    <2>1. status' \in [Fixtures -> Statuses]
      BY <1>3, <1>a, <2>0
         DEF ReadsMatch, UpdateMatch, MakesVetoRoom, VetoMovesMatch, CancelVeto
    <2>2. UNCHANGED <<bracket, copied, conn, over, job, sync, faults>>
      BY <1>3 DEF ReadsMatch, UpdateMatch, MakesVetoRoom, VetoMovesMatch, CancelVeto
    <2> QED BY <1>a, <1>b, <1>c, <2>1, <2>2 DEF Typed
  <1>4. ASSUME NEW automatic \in BOOLEAN, SaveAdminIntegration(automatic) PROVE Typed'
    <2>1. conn' \in ConnType
      BY <1>4, <1>a, TimesGiven DEF SaveAdminIntegration, ConnType
    <2> QED BY <1>4, <1>a, <1>b, <1>c, <2>1 DEF SaveAdminIntegration, Typed
  <1>5. CASE SchedulerTick \/ SchedulerStops
    <2>1. conn' \in ConnType
      BY <1>5, <1>a, TimesGiven DEF SchedulerTick, SchedulerStops, ClaimDue, ConnType
    <2> QED BY <1>5, <1>a, <1>b, <1>c, <1>d, <2>1
            DEF SchedulerTick, SchedulerStops, ClaimDue, Typed
  <1>6. CASE SkipScheduled
    <2>1. conn' \in ConnType
      BY <1>6, <1>a, TimesGiven DEF SkipScheduled, ConnType
    <2>2. sync' = Outlived(conn.automatic) /\ conn.automatic \in BOOLEAN /\ UNCHANGED bracket
      BY <1>6, <1>a DEF SkipScheduled, ConnType
    <2>3. /\ sync' \in [Syncs -> SyncType']
          /\ \A w \in Syncs : sync'[w].at \in {"fetched", "read", "written"} =>
                sync'[w].version # 0
      BY <2>2, OutlivedGiven DEF Typed
    <2> QED BY <1>6, <1>a, <1>b, <2>1, <2>3 DEF SkipScheduled, Typed
  <1>7. CASE Tick
    <2>2. conn' \in ConnType
      BY <1>7, <1>a, TimesGiven DEF Tick, ConnType
    <2>3. /\ sync' \in [Syncs -> SyncType']
          /\ \A w \in Syncs : sync'[w].at \in {"fetched", "read", "written"} =>
                sync'[w].version # 0
      <3>1. (conn.lease = 1) \in BOOLEAN /\ sync' = Outlived(conn.lease = 1) /\ UNCHANGED bracket
        BY <1>7 DEF Tick
      <3> QED BY <3>1, OutlivedGiven DEF Typed
    <2> QED BY <1>7, <1>a, <1>b, <2>2, <2>3 DEF Tick, Typed
  <1>8. ASSUME NEW w \in Syncs, StartSync(w) PROVE Typed'
    <2> DEFINE s == [Idle EXCEPT !.at = "settings", !.repeats = conn.automatic /\ over = "no"]
    <2>1. s \in SyncType /\ s.at = "settings"
      <3>1. (conn.automatic /\ over = "no") \in BOOLEAN
        OBVIOUS
      <3> QED BY <3>1, IdleGiven DEF Idle, SyncType
    <2>2. sync' = [sync EXCEPT ![w] = s]
      BY <1>8 DEF StartSync
    <2> HIDE DEF s
    <2>3. /\ sync' \in [Syncs -> SyncType']
          /\ \A v \in Syncs : sync'[v].at \in {"fetched", "read", "written"} =>
                sync'[v].version # 0
      BY <1>8, <2>1, <2>2, SyncMoves DEF StartSync
    <2> QED BY <1>8, <1>a, <1>b, <2>3 DEF StartSync, Typed
  <1>9. ASSUME NEW w \in Syncs, ClaimSyncLease(w) PROVE Typed'
    <2> DEFINE s == [sync[w] EXCEPT !.at = "claimed", !.late = \E v \in Working : sync[v].late]
    <2>1. s \in SyncType /\ s.at = "claimed"
      <3>1. (\E v \in Working : sync[v].late) \in BOOLEAN
        OBVIOUS
      <3> QED BY <1>a, <3>1 DEF SyncType
    <2>2. sync' = [sync EXCEPT ![w] = s]
      BY <1>9 DEF ClaimSyncLease
    <2>3. conn' \in ConnType
      BY <1>9, <1>a, TimesGiven DEF ClaimSyncLease, ConnType
    <2> HIDE DEF s
    <2>4. /\ sync' \in [Syncs -> SyncType']
          /\ \A v \in Syncs : sync'[v].at \in {"fetched", "read", "written"} =>
                sync'[v].version # 0
      BY <1>9, <2>1, <2>2, SyncMoves DEF ClaimSyncLease
    <2> QED BY <1>9, <1>a, <1>b, <2>3, <2>4 DEF ClaimSyncLease, Typed
  <1>10. ASSUME NEW w \in Syncs, AlreadyRunning(w) \/ SyncStops(w) \/ FetchFails(w) PROVE Typed'
    <2>1. sync' = [sync EXCEPT ![w] = Idle] /\ UNCHANGED <<bracket, status, copied, over>>
      BY <1>10 DEF AlreadyRunning, SyncStops, FetchFails, Ends
    <2>2. /\ sync' \in [Syncs -> SyncType']
          /\ \A v \in Syncs : sync'[v].at \in {"fetched", "read", "written"} =>
                sync'[v].version # 0
      BY <2>1, SyncMoves, IdleGiven
    <2>3. conn' \in ConnType
      <3>1. UNCHANGED conn
            \/ conn' = [conn EXCEPT !.lease = 0, !.due = NextSyncAt(sync[w].repeats)]
        BY <1>10 DEF AlreadyRunning, SyncStops, FetchFails
      <3>2. 0 \in 0..LeaseTime /\ NextSyncAt(sync[w].repeats) \in DueType
        BY TimesGiven
      <3> QED BY <1>a, <3>1, <3>2 DEF ConnType
    <2>4. faults' \in 0..MaxFaults /\ job' \in {"none", "queued", "running"}
      BY <1>10, <1>d DEF AlreadyRunning, SyncStops, FetchFails, Ends, Typed
    <2> QED BY <1>a, <1>b, <2>1, <2>2, <2>3, <2>4 DEF Typed
  <1>11. ASSUME NEW w \in Syncs, FetchChallongeSnapshot(w) PROVE Typed'
    <2> DEFINE s == [sync[w] EXCEPT !.at = "fetched", !.version = Len(bracket)]
    <2>1. s \in SyncType /\ s.version # 0
      <3>1. Len(bracket) \in 0..Len(bracket) /\ Len(bracket) # 0 /\ sync[w] \in SyncType
        BY <1>a, BracketGiven
      <3> QED BY <3>1 DEF SyncType
    <2>2. sync' = [sync EXCEPT ![w] = s]
      BY <1>11 DEF FetchChallongeSnapshot
    <2> HIDE DEF s
    <2>4. /\ sync' \in [Syncs -> SyncType']
          /\ \A v \in Syncs : sync'[v].at \in {"fetched", "read", "written"} =>
                sync'[v].version # 0
      BY <1>11, <2>1, <2>2, SyncMoves DEF FetchChallongeSnapshot
    <2> QED BY <1>11, <1>a, <1>b, <2>4 DEF FetchChallongeSnapshot, Typed
  <1>12. ASSUME NEW w \in Syncs, ReadMatches(w) PROVE Typed'
    <2> DEFINE s == [sync[w] EXCEPT !.at = "read", !.saw = status]
    <2>1. s \in SyncType /\ s.version = sync[w].version /\ sync[w].version # 0
      BY <1>12, <1>a DEF SyncType, ReadMatches, Doing, Typed
    <2>2. sync' = [sync EXCEPT ![w] = s]
      BY <1>12 DEF ReadMatches
    <2> HIDE DEF s
    <2>4. /\ sync' \in [Syncs -> SyncType']
          /\ \A v \in Syncs : sync'[v].at \in {"fetched", "read", "written"} =>
                sync'[v].version # 0
      BY <1>12, <2>1, <2>2, SyncMoves DEF ReadMatches
    <2> QED BY <1>12, <1>a, <1>b, <2>4 DEF ReadMatches, Typed
  <1>13. ASSUME NEW w \in Syncs, SyncSnapshotToMatches(w) PROVE Typed'
    <2> DEFINE s == [sync[w] EXCEPT !.at = "written"]
    <2>0. /\ sync[w].version \in 0..Len(bracket) /\ sync[w].version # 0
          /\ sync[w].saw \in [Fixtures -> Statuses]
      BY <1>13, <1>a DEF SyncType, SyncSnapshotToMatches, Doing, Typed
    <2>1. s \in SyncType /\ s.version = sync[w].version /\ s.version # 0
      BY <1>a, <2>0 DEF SyncType
    <2>2. sync' = [sync EXCEPT ![w] = s]
      BY <1>13 DEF SyncSnapshotToMatches
    <2> HIDE DEF s
    <2>3. bracket[sync[w].version] \in Version
      BY <2>0, BracketGiven
    <2>4. \A f \in Fixtures :
             SyncedStatus(sync[w].saw[f], bracket[sync[w].version].state[f]) \in Statuses
      BY <2>0, <2>3, SyncedGiven DEF Version
    <2>5. /\ sync' \in [Syncs -> SyncType']
          /\ \A v \in Syncs : sync'[v].at \in {"fetched", "read", "written"} =>
                sync'[v].version # 0
      BY <1>13, <2>1, <2>2, SyncMoves DEF SyncSnapshotToMatches
    <2> QED BY <1>13, <1>a, <1>b, <2>0, <2>4, <2>5 DEF SyncSnapshotToMatches, Typed
  <1>14. ASSUME NEW w \in Syncs, FinishSync(w) PROVE Typed'
    <2>1. sync' = [sync EXCEPT ![w] = Idle] /\ UNCHANGED bracket
      BY <1>14 DEF FinishSync, Ends
    <2>2. /\ sync' \in [Syncs -> SyncType']
          /\ \A v \in Syncs : sync'[v].at \in {"fetched", "read", "written"} =>
                sync'[v].version # 0
      BY <2>1, SyncMoves, IdleGiven
    <2>4. conn' \in ConnType
      BY <1>14, <1>a, TimesGiven DEF FinishSync, ConnType
    <2>5. over' \in {"no", "synced", "by staff"} /\ job' \in {"none", "queued", "running"}
      BY <1>14 DEF FinishSync, Ends, Typed
    <2> QED BY <1>14, <1>a, <1>b, <2>1, <2>2, <2>4, <2>5 DEF FinishSync, Typed
  <1>15. CASE UNCHANGED vars
    BY <1>15, <1>a, <1>b, <1>c DEF vars, Typed
  <1> QED BY <1>1, <1>2, <1>3, <1>4, <1>5, <1>6, <1>7, <1>8, <1>9, <1>10, <1>11, <1>12, <1>13,
             <1>14, <1>15, ChallongeAssumption DEF Next, SyncSteps

\* The rows, the settings and the syncs keep their types.
THEOREM TypesHold == Spec => []TypeOK
  BY InitTyped, TypedStep, TypedIsTypeOK, PTL DEF Spec


-----------------------------------------------------------------------------
(* What the rows say.                                                      *)

\* What Challonge has said it goes on having said.
LEMMA KnownGrows ==
    ASSUME Typed, NEW v \in Version, bracket' = Append(bracket, v), Len(bracket) < MaxVersion,
           NEW f \in Fixtures
    PROVE  KnownTo(f) \subseteq KnownTo(f)'
  <1>1. /\ Len(bracket) \in Nat /\ Len(bracket') = Len(bracket) + 1
        /\ \A n \in 1..Len(bracket) : bracket'[n] = bracket[n]
    BY BracketGrows, BracketGiven
  <1>2. \A n \in 1..Len(bracket) : n \in 1..Len(bracket')
    BY <1>1
  <1> QED BY <1>1, <1>2 DEF KnownTo

\* A version is appended, and nothing is read or written.
LEMMA RowsGrow ==
    ASSUME Typed, RowsInv, NEW v \in Version, bracket' = Append(bracket, v),
           Len(bracket) < MaxVersion, UNCHANGED <<status, copied, edit, veto, sync>>
    PROVE  RowsInv'
  <1> SUFFICES ASSUME NEW f \in Fixtures
               PROVE  /\ {status[f], edit[f], veto[f]} \subseteq KnownTo(f)'
                      /\ \A w \in Syncs : sync[w].saw[f] \in KnownTo(f)'
                      /\ status[f] = "absent" => edit[f] = "absent" /\ veto[f] = "absent"
                      /\ copied # 0 =>
                           (status[f] = "absent" <=> bracket'[copied].state[f] = "absent")
    BY DEF RowsInv
  <1>1. copied # 0 => bracket'[copied] = bracket[copied]
    <2>1. copied # 0 => copied \in 1..Len(bracket)
      BY BracketGiven DEF Typed
    <2> QED BY <2>1, BracketGrows
  <1>2. KnownTo(f) \subseteq KnownTo(f)'
    BY KnownGrows
  <1> QED BY <1>1, <1>2 DEF RowsInv

\* Staff and the veto write what they have read, or an operational status.
LEMMA RowsHandled ==
    ASSUME Typed, RowsInv, NEW g \in Handled,
           ReadsMatch(g) \/ UpdateMatch(g) \/ MakesVetoRoom(g) \/ VetoMovesMatch(g) \/ CancelVeto(g)
    PROVE  RowsInv'
  <1> SUFFICES ASSUME NEW f \in Fixtures
               PROVE  /\ {status'[f], edit'[f], veto'[f]} \subseteq KnownTo(f)
                      /\ status'[f] = "absent" => edit'[f] = "absent" /\ veto'[f] = "absent"
                      /\ status'[f] = "absent" <=> status[f] = "absent"
    <2>1. UNCHANGED <<bracket, copied, sync>>
      BY DEF ReadsMatch, UpdateMatch, MakesVetoRoom, VetoMovesMatch, CancelVeto
    <2>2. \A f \in Fixtures : KnownTo(f)' = KnownTo(f)
      BY <2>1 DEF KnownTo
    <2> QED BY <2>1, <2>2 DEF RowsInv
  <1>a. /\ g \in Fixtures /\ status \in [Fixtures -> Statuses]
        /\ edit \in [Fixtures -> Statuses] /\ veto \in [Fixtures -> Statuses]
    BY ChallongeAssumption DEF Typed
  <1>b. /\ {status[f], edit[f], veto[f]} \subseteq KnownTo(f)
        /\ status[f] = "absent" => edit[f] = "absent" /\ veto[f] = "absent"
        /\ status[g] = "absent" => edit[g] = "absent" /\ veto[g] = "absent"
        /\ LOCAL_OPERATIONAL_STATUSES \subseteq KnownTo(f) /\ "absent" \in KnownTo(f)
    BY <1>a DEF RowsInv, KnownTo
  <1>1. CASE ReadsMatch(g)
    BY <1>a, <1>b, <1>1 DEF ReadsMatch
  <1>2. CASE UpdateMatch(g)
    <2>1. PICK to \in StaffTargets \union {edit[g]} : status' = [status EXCEPT ![g] = to]
      BY <1>2 DEF UpdateMatch
    <2>2. /\ edit' = [edit EXCEPT ![g] = "absent"] /\ UNCHANGED veto
          /\ edit[g] # "absent"
      BY <1>2 DEF UpdateMatch
    <2>3. to # "absent" /\ (f = g => to \in KnownTo(f))
      BY <1>b, <2>2, ChallongeAssumption, MapGiven
    <2> QED BY <1>a, <1>b, <2>1, <2>2, <2>3
  <1>3. CASE MakesVetoRoom(g)
    BY <1>a, <1>b, <1>3 DEF MakesVetoRoom
  <1>4. CASE VetoMovesMatch(g)
    <2>1. PICK to \in Statuses :
             <<status[g], to>> \in VetoMoves /\ status' = [status EXCEPT ![g] = to]
      BY <1>4 DEF VetoMovesMatch
    <2>2. /\ to \in LOCAL_OPERATIONAL_STATUSES /\ to # "absent" /\ status[g] # "absent"
          /\ UNCHANGED <<edit, veto>>
      BY <1>4, <2>1 DEF VetoMovesMatch, VetoMoves, LOCAL_OPERATIONAL_STATUSES, beside
    <2> QED BY <1>a, <1>b, <2>1, <2>2
  <1>5. CASE CancelVeto(g)
    BY <1>a, <1>b, <1>5 DEF CancelVeto, beside
  <1> QED BY <1>1, <1>2, <1>3, <1>4, <1>5

\* A sync writes what it saw or what its version says, whichever it is.
LEMMA RowsWritten ==
    ASSUME Typed, RowsInv, NEW w \in Syncs, SyncSnapshotToMatches(w)
    PROVE  RowsInv'
  <1> DEFINE n == sync[w].version
  <1>1. /\ n \in 1..Len(bracket) /\ bracket[n] \in Version
        /\ sync \in [Syncs -> SyncType] /\ sync[w].saw \in [Fixtures -> Statuses]
    BY BracketGiven DEF SyncSnapshotToMatches, Doing, Typed, SyncType
  <1>2. /\ UNCHANGED bracket /\ copied' = n
        /\ \A v \in Syncs : sync'[v].saw = sync[v].saw
    BY <1>1 DEF SyncSnapshotToMatches, SyncType
  <1>3. \A f \in Fixtures : KnownTo(f)' = KnownTo(f)
    BY <1>2 DEF KnownTo
  <1>4. ASSUME NEW f \in Fixtures
        PROVE  /\ status'[f] = SyncedStatus(sync[w].saw[f], bracket[n].state[f])
               /\ edit'[f] = (IF status'[f] = "absent" THEN "absent" ELSE edit[f])
               /\ veto'[f] = (IF status'[f] = "absent" THEN "absent" ELSE veto[f])
    BY DEF SyncSnapshotToMatches, OfRows
  <1>5. ASSUME NEW f \in Fixtures
        PROVE  /\ status'[f] \in KnownTo(f)
               /\ status'[f] = "absent" <=> bracket[n].state[f] = "absent"
    <2>1. bracket[n].state[f] \in UpStates /\ sync[w].saw[f] \in Statuses
      BY <1>1 DEF Version
    <2>2. mapChallongeStatus(bracket[n].state[f]) \in KnownTo(f)
      BY <1>1 DEF KnownTo
    <2>3. LOCAL_OPERATIONAL_STATUSES \subseteq KnownTo(f)
      BY DEF KnownTo
    <2> QED BY <1>4, <2>1, <2>2, <2>3, SyncedGiven
  <1> HIDE DEF n
  <1> SUFFICES ASSUME NEW f \in Fixtures
               PROVE  /\ {status'[f], edit'[f], veto'[f]} \subseteq KnownTo(f)
                      /\ \A v \in Syncs : sync[v].saw[f] \in KnownTo(f)
                      /\ status'[f] = "absent" => edit'[f] = "absent" /\ veto'[f] = "absent"
                      /\ status'[f] = "absent" <=> bracket[n].state[f] = "absent"
    BY <1>2, <1>3 DEF RowsInv
  <1>6. {edit[f], veto[f], "absent"} \subseteq KnownTo(f)
    BY DEF RowsInv, KnownTo
  <1> QED BY <1>4, <1>5, <1>6 DEF RowsInv

\* A step of a sync that writes no row: it reads the rows or keeps what it saw.
LEMMA RowsKept ==
    ASSUME Typed, RowsInv, UNCHANGED <<bracket, status, copied, edit, veto>>,
           \A w \in Syncs : \/ sync'[w].saw \in {sync[w].saw, status}
                            \/ \A f \in Fixtures : sync'[w].saw[f] = "absent"
    PROVE  RowsInv'
  <1>1. \A f \in Fixtures : KnownTo(f)' = KnownTo(f) /\ "absent" \in KnownTo(f)
    BY DEF KnownTo
  <1> QED BY <1>1 DEF RowsInv

LEMMA RowsStep ==
    ASSUME Typed, RowsInv, [Next]_vars
    PROVE  RowsInv'
  <1>a. sync \in [Syncs -> SyncType] /\ conn \in ConnType
    BY DEF Typed
  <1>1. CASE BracketMoves
    <2>0. PICK f \in Fixtures : \E s \in Later(Current.state[f]) :
             bracket' = Append(bracket, [Current EXCEPT !.state[f] = s])
      BY <1>1 DEF BracketMoves
    <2>1. PICK s \in Later(Current.state[f]) :
             bracket' = Append(bracket, [Current EXCEPT !.state[f] = s])
      BY <2>0
    <2>2. s \in UpStates
      BY <2>1 DEF Later, UpStates
    <2>3. [Current EXCEPT !.state[f] = s] \in Version
      BY <2>2, BracketGiven DEF Version
    <2> QED BY <1>1, <2>1, <2>3, RowsGrow DEF BracketMoves, beside
  <1>2. ASSUME NEW how \in {over, "by staff"}, Finalise(how) PROVE RowsInv'
    <2>1. [Current EXCEPT !.done = TRUE] \in Version
      BY BracketGiven DEF Version
    <2> QED BY <1>2, <2>1, RowsGrow DEF Finalise, beside
  <1>3. ASSUME NEW g \in Handled,
               ReadsMatch(g) \/ UpdateMatch(g) \/ MakesVetoRoom(g)
               \/ VetoMovesMatch(g) \/ CancelVeto(g)
        PROVE  RowsInv'
    BY <1>3, RowsHandled
  <1>4. CASE \/ \E automatic \in BOOLEAN : SaveAdminIntegration(automatic)
             \/ SchedulerTick \/ SchedulerStops \/ UNCHANGED vars
    <2>1. UNCHANGED <<bracket, status, copied, edit, veto, sync>>
      BY <1>4 DEF SaveAdminIntegration, SchedulerTick, SchedulerStops, ClaimDue, beside, vars
    <2> QED BY <2>1, RowsKept
  <1>5. CASE SkipScheduled \/ Tick
    <2>1. /\ UNCHANGED <<bracket, status, copied, edit, veto>>
          /\ sync' = Outlived(conn.automatic) \/ sync' = Outlived(conn.lease = 1)
          /\ conn.automatic \in BOOLEAN /\ (conn.lease = 1) \in BOOLEAN
      BY <1>a, <1>5 DEF SkipScheduled, Tick, beside, ConnType
    <2>2. \A w \in Syncs : sync'[w].saw = sync[w].saw
      BY <2>1, OutlivedGiven
    <2> QED BY <2>1, <2>2, RowsKept
  <1>6. ASSUME NEW w \in Syncs,
               StartSync(w) \/ ClaimSyncLease(w) \/ AlreadyRunning(w) \/ FinishSync(w)
               \/ FetchChallongeSnapshot(w) \/ ReadMatches(w) \/ FetchFails(w) \/ SyncStops(w)
        PROVE  RowsInv'
    <2>1. UNCHANGED <<bracket, status, copied, edit, veto>>
      BY <1>6 DEF StartSync, ClaimSyncLease, AlreadyRunning, FinishSync, FetchChallongeSnapshot,
                  ReadMatches, FetchFails, SyncStops, beside
    <2>2. \A v \in Syncs \ {w} : sync'[v] = sync[v]
      BY <1>a, <1>6 DEF StartSync, ClaimSyncLease, AlreadyRunning, FinishSync,
                        FetchChallongeSnapshot, ReadMatches, FetchFails, SyncStops, Ends
    <2>3. CASE StartSync(w)
      <3>1. sync'[w] = [Idle EXCEPT !.at = "settings", !.repeats = conn.automatic /\ over = "no"]
        BY <1>a, <2>3 DEF StartSync
      <3>2. \A f \in Fixtures : sync'[w].saw[f] = "absent"
        BY <3>1 DEF Idle
      <3> QED BY <2>1, <2>2, <3>2, RowsKept
    <2>4. CASE AlreadyRunning(w) \/ FinishSync(w) \/ FetchFails(w) \/ SyncStops(w)
      <3>1. sync'[w] = Idle
        BY <1>a, <2>4 DEF AlreadyRunning, FinishSync, FetchFails, SyncStops, Ends
      <3>2. \A f \in Fixtures : sync'[w].saw[f] = "absent"
        BY <3>1 DEF Idle
      <3> QED BY <2>1, <2>2, <3>2, RowsKept
    <2>5. CASE ClaimSyncLease(w) \/ FetchChallongeSnapshot(w)
      <3>1. sync'[w].saw = sync[w].saw
        BY <1>a, <2>5 DEF ClaimSyncLease, FetchChallongeSnapshot, SyncType
      <3> QED BY <2>1, <2>2, <3>1, RowsKept
    <2>6. CASE ReadMatches(w)
      <3>1. sync'[w].saw = status
        BY <1>a, <2>6 DEF ReadMatches, SyncType
      <3> QED BY <2>1, <2>2, <3>1, RowsKept
    <2> QED BY <1>6, <2>3, <2>4, <2>5, <2>6
  <1>7. ASSUME NEW w \in Syncs, SyncSnapshotToMatches(w) PROVE RowsInv'
    BY <1>7, RowsWritten
  <1> QED BY <1>1, <1>2, <1>3, <1>4, <1>5, <1>6, <1>7 DEF Next, SyncSteps

LEMMA RowsOfBracket == Typed /\ RowsInv => RowsFromBracket
  <1> SUFFICES ASSUME Typed, RowsInv, copied # 0, NEW f \in Fixtures
               PROVE  /\ status[f] = "absent" <=> bracket[copied].state[f] = "absent"
                      /\ status[f] \notin LOCAL_OPERATIONAL_STATUSES =>
                           \E v \in 1..Len(bracket) :
                             status[f] = mapChallongeStatus(bracket[v].state[f])
    BY DEF RowsFromBracket
  <1>1. copied \in 1..Len(bracket)
    BY BracketGiven DEF Typed
  <1>2. status[f] = "absent" <=> bracket[copied].state[f] = "absent"
    BY DEF RowsInv
  <1>3. CASE status[f] = "absent"
    <2>1. mapChallongeStatus("absent") = "absent"
      BY MapGiven DEF UpStates
    <2> QED BY <1>1, <1>2, <1>3, <2>1
  <1>4. CASE status[f] # "absent"
    <2>1. status[f] \in KnownTo(f)
      BY DEF RowsInv
    <2> QED BY <1>2, <1>4, <2>1 DEF KnownTo
  <1> QED BY <1>3, <1>4

\* However stale what staff save again, what a cancelled veto restores and what a
\* late sync keeps, the rows are the fixtures of one version of the bracket, and
\* no status is made up.
THEOREM RowsComeFromBracket == Spec => []RowsFromBracket
  BY InitTyped, TypedStep, RowsStep, RowsOfBracket, PTL DEF Spec

-----------------------------------------------------------------------------
(* The lease.                                                              *)

LEMMA AloneStep == Typed /\ Alone /\ [Next]_vars => Alone'
  <1> SUFFICES ASSUME Typed, Alone, [Next]_vars PROVE Alone'
    OBVIOUS
  <1>b. sync \in [Syncs -> SyncType] /\ conn \in ConnType
    BY DEF Typed
  <1>1. ASSUME UNCHANGED <<sync, copied>>, conn'.lease = conn.lease
        PROVE  Alone'
    BY <1>1 DEF Alone, Working
  <1>2. ASSUME NEW w \in Syncs, NEW s, sync' = [sync EXCEPT ![w] = s],
               s.at \in {"idle", "settings"}, UNCHANGED copied,
               conn'.lease = conn.lease \/ w \in Working
        PROVE  Alone'
    <2>1. sync'[w] = s /\ \A v \in Syncs \ {w} : sync'[v] = sync[v]
      BY <1>b, <1>2
    <2>2. Working' = Working \ {w} /\ \A v \in Working' : v \in Syncs
      BY <1>2, <2>1 DEF Working
    <2> SUFFICES ASSUME NEW v \in Working', ~sync'[v].late
                 PROVE  /\ Working' = {v} /\ conn'.lease # 0
                        /\ sync'[v].at # "claimed" => sync'[v].version >= copied'
      BY DEF Alone
    <2>3. v \in Working /\ v # w /\ sync'[v] = sync[v]
      BY <2>1, <2>2
    <2>4. Working = {v} /\ conn.lease # 0
      BY <2>3 DEF Alone
    <2> QED BY <1>2, <2>2, <2>3, <2>4 DEF Alone
  <1>3. ASSUME NEW w \in Syncs, NEW s, sync' = [sync EXCEPT ![w] = s], w \in Working,
               s.at \in {"fetched", "read", "written"}, s.late = sync[w].late,
               ~s.late => s.version >= copied', conn'.lease = conn.lease,
               UNCHANGED copied \/ copied' = s.version
        PROVE  Alone'
    <2>1. sync'[w] = s /\ \A v \in Syncs \ {w} : sync'[v] = sync[v]
      BY <1>b, <1>3
    <2>2. Working' = Working
      BY <1>3, <2>1 DEF Working
    <2> SUFFICES ASSUME NEW v \in Working', ~sync'[v].late
                 PROVE  /\ Working' = {v} /\ conn'.lease # 0
                        /\ sync'[v].at # "claimed" => sync'[v].version >= copied'
      BY DEF Alone
    <2>3. v \in Working /\ ~sync[v].late
      BY <1>3, <2>1, <2>2 DEF Working
    <2>4. Working = {v} /\ conn.lease # 0 /\ v = w
      BY <1>3, <2>3 DEF Alone
    <2> QED BY <1>3, <2>1, <2>2, <2>4
  <1>4. CASE \/ BracketMoves \/ (\E how \in {over, "by staff"} : Finalise(how))
             \/ (\E f \in Handled : ReadsMatch(f) \/ UpdateMatch(f) \/ MakesVetoRoom(f)
                                    \/ VetoMovesMatch(f) \/ CancelVeto(f))
             \/ (\E automatic \in BOOLEAN : SaveAdminIntegration(automatic))
             \/ SchedulerTick \/ SchedulerStops \/ UNCHANGED vars
    <2>1. UNCHANGED <<sync, copied>>
      BY <1>4 DEF BracketMoves, Finalise, ReadsMatch, UpdateMatch, MakesVetoRoom, VetoMovesMatch,
                  CancelVeto, SaveAdminIntegration, SchedulerTick, SchedulerStops, ClaimDue, vars
    <2>2. conn'.lease = conn.lease
      BY <1>b, <1>4 DEF BracketMoves, Finalise, ReadsMatch, UpdateMatch, MakesVetoRoom,
                        VetoMovesMatch, CancelVeto, SaveAdminIntegration, SchedulerTick,
                        SchedulerStops, ClaimDue, vars, ConnType
    <2> QED BY <1>1, <2>1, <2>2
  <1>5. ASSUME NEW gone \in BOOLEAN, sync' = Outlived(gone), UNCHANGED <<bracket, copied>>,
               ~gone => (conn.lease # 0 => conn'.lease # 0)
        PROVE  Alone'
    <2>1. /\ Working' = Working
          /\ \A w \in Syncs :
               /\ sync'[w].at = sync[w].at /\ sync'[w].version = sync[w].version
               /\ sync'[w].late = (sync[w].late \/ (gone /\ w \in Working))
      BY <1>5, OutlivedGiven
    <2> SUFFICES ASSUME NEW w \in Working', ~sync'[w].late
                 PROVE  /\ Working' = {w} /\ conn'.lease # 0
                        /\ sync'[w].at # "claimed" => sync'[w].version >= copied'
      BY DEF Alone
    <2>2. w \in Syncs /\ w \in Working
      BY <2>1 DEF Working
    <2>3. ~sync[w].late /\ ~gone
      BY <2>1, <2>2
    <2> QED BY <1>5, <2>1, <2>2, <2>3 DEF Alone
  <1>6. CASE SkipScheduled
    <2>1. /\ sync' = Outlived(conn.automatic) /\ UNCHANGED <<bracket, copied>>
          /\ conn.automatic \in BOOLEAN /\ (~conn.automatic => UNCHANGED conn)
      BY <1>b, <1>6 DEF SkipScheduled, ConnType
    <2> QED BY <1>5, <2>1
  <1>7. CASE Tick
    <2>1. /\ sync' = Outlived(conn.lease = 1) /\ UNCHANGED <<bracket, copied>>
          /\ (conn.lease = 1) \in BOOLEAN /\ conn'.lease = LeaseAfter(conn.lease)
          /\ conn.lease \in 0..LeaseTime
      BY <1>b, <1>7 DEF Tick, ConnType
    <2>2. conn.lease # 1 => (conn.lease # 0 => conn'.lease # 0)
      BY <2>1, TimesGiven
    <2> QED BY <1>5, <2>1, <2>2
  <1>8. ASSUME NEW w \in Syncs, StartSync(w) PROVE Alone'
    <2> DEFINE s == [Idle EXCEPT !.at = "settings", !.repeats = conn.automatic /\ over = "no"]
    <2>1. sync' = [sync EXCEPT ![w] = s] /\ UNCHANGED <<copied, conn>>
      BY <1>8 DEF StartSync
    <2>2. s.at = "settings"
      BY DEF Idle
    <2> HIDE DEF s
    <2> QED BY <1>2, <2>1, <2>2
  <1>9. ASSUME NEW w \in Syncs, AlreadyRunning(w) \/ FetchFails(w) \/ SyncStops(w) \/ FinishSync(w)
        PROVE  Alone'
    <2>1. sync' = [sync EXCEPT ![w] = Idle] /\ UNCHANGED copied /\ Idle.at = "idle"
      BY <1>9 DEF AlreadyRunning, FetchFails, SyncStops, FinishSync, Ends, Idle
    <2>2. UNCHANGED conn \/ w \in Working
      BY <1>9 DEF AlreadyRunning, FetchFails, SyncStops, FinishSync, Working, Doing
    <2> QED BY <1>2, <2>1, <2>2
  <1>10. ASSUME NEW w \in Syncs, ClaimSyncLease(w) PROVE Alone'
    <2>1. /\ conn.lease = 0 /\ conn'.lease = LeaseTime /\ UNCHANGED copied
          /\ sync'[w].at = "claimed" /\ sync'[w].late = (\E v \in Working : sync[v].late)
          /\ \A v \in Syncs \ {w} : sync'[v] = sync[v]
      BY <1>10, <1>b DEF ClaimSyncLease, LeaseFree, SyncType, ConnType
    <2>2. \A v \in Working : sync[v].late
      BY <2>1 DEF Alone
    <2>3. Working' = Working \union {w} /\ w \notin Working
      BY <1>10, <2>1 DEF Working, ClaimSyncLease, Doing
    <2> SUFFICES ASSUME NEW v \in Working', ~sync'[v].late
                 PROVE  /\ Working' = {v} /\ conn'.lease # 0
                        /\ sync'[v].at # "claimed" => sync'[v].version >= copied'
      BY DEF Alone
    <2>4. v = w
      <3>1. v \in Syncs
        BY DEF Working
      <3> QED BY <2>1, <2>2, <2>3, <3>1
    <2>5. Working = {}
      BY <2>1, <2>2, <2>4
    <2> QED BY <2>1, <2>3, <2>4, <2>5, TimesGiven
  <1>11. ASSUME NEW w \in Syncs,
                FetchChallongeSnapshot(w) \/ ReadMatches(w) \/ SyncSnapshotToMatches(w)
         PROVE  Alone'
    <2>0. w \in Working /\ UNCHANGED conn
      BY <1>11 DEF FetchChallongeSnapshot, ReadMatches, SyncSnapshotToMatches, Doing, Working
    <2>1. sync' = [sync EXCEPT ![w] = sync'[w]]
      BY <1>11, <1>b DEF FetchChallongeSnapshot, ReadMatches, SyncSnapshotToMatches
    <2>2. CASE FetchChallongeSnapshot(w)
      <3>1. /\ sync'[w].at = "fetched" /\ sync'[w].version = Len(bracket) /\ UNCHANGED copied
            /\ sync'[w].late = sync[w].late
        BY <1>b, <2>2 DEF FetchChallongeSnapshot, SyncType
      <3>2. Len(bracket) >= copied
        BY BracketGiven DEF Typed
      <3> QED BY <1>3, <2>0, <2>1, <3>1, <3>2
    <2>3. CASE ReadMatches(w)
      <3>1. /\ sync'[w].at = "read" /\ sync'[w].version = sync[w].version /\ UNCHANGED copied
            /\ sync'[w].late = sync[w].late
        BY <1>b, <2>3 DEF ReadMatches, SyncType
      <3>2. ~sync[w].late => sync[w].version >= copied
        BY <2>0, <2>3 DEF ReadMatches, Doing, Alone
      <3> QED BY <1>3, <2>0, <2>1, <3>1, <3>2
    <2>4. CASE SyncSnapshotToMatches(w)
      <3>1. /\ sync'[w].at = "written" /\ sync'[w].version = sync[w].version
            /\ copied' = sync[w].version /\ sync[w].version \in Nat
            /\ sync'[w].late = sync[w].late
        BY <1>b, <2>4, BracketGiven DEF SyncSnapshotToMatches, SyncType
      <3>2. sync'[w].version >= copied'
        BY <3>1
      <3> QED BY <1>3, <2>0, <2>1, <3>1, <3>2
    <2> QED BY <1>11, <2>2, <2>3, <2>4
  <1> QED BY <1>4, <1>6, <1>7, <1>8, <1>9, <1>10, <1>11 DEF Next, SyncSteps

\* A sync that has neither outlived its lease nor works beside one that has never
\* puts an older bracket over a newer one, whatever staff ask for meanwhile and
\* whichever syncs stopped before it.
THEOREM BracketNeverBackwards == Spec => NeverBackwards
  <1>1. Typed /\ Alone /\ [Next]_vars =>
          [\A w \in Syncs : SyncSnapshotToMatches(w) /\ ~sync[w].late => copied' >= copied]_vars
    <2> SUFFICES ASSUME Typed, Alone, NEW w \in Syncs, SyncSnapshotToMatches(w), ~sync[w].late
                 PROVE  copied' >= copied
      OBVIOUS
    <2>1. w \in Working /\ sync[w].at = "read" /\ copied' = sync[w].version
      BY DEF SyncSnapshotToMatches, Doing, Working
    <2> QED BY <2>1 DEF Alone
  <1> QED BY InitTyped, TypedStep, AloneStep, <1>1, PTL DEF Spec, NeverBackwards

\* The lease as it is meant: a sync that has not outlived it works alone.
LeaseExcludes == \A w \in Working : ~sync[w].late => Working = {w} /\ conn.lease # 0

\* Whoever stops, fails or finishes, a sync that has neither outlived its lease nor
\* began beside one that had works alone, and under a lease that has not run out:
\* nothing but time, or a late sync that gives back a lease it lost, lets two work.
THEOREM LeaseExcludesOthers == Spec => []LeaseExcludes
  <1>1. Alone => LeaseExcludes
    BY DEF Alone, LeaseExcludes
  <1> QED BY InitTyped, TypedStep, AloneStep, <1>1, PTL DEF Spec

=============================================================================
