------------------------------ MODULE VetoRoom ------------------------------
(***************************************************************************)
(* The map veto of one match: modules/veto/veto.service.js, the room that  *)
(* modules/match-rooms/match-room.service.js provisions, and the status of *)
(* the match, which modules/matches/match.service.js and the Challonge     *)
(* sync (modules/challonge/challonge-sync.service.js) also write.          *)
(* A request reads the room, checks what it may do, and writes later in a  *)
(* transaction that first compares the revision with the one the client    *)
(* saw (mutateRevision).  What is written is computed from the room as it  *)
(* was read, so a request here keeps that room.  Deleting a room compares  *)
(* no revision.                                                            *)
(* A room with no match is the same room with syncMatchStatus doing        *)
(* nothing.  turnDeadline is stored and shown but nothing acts on it.      *)
(***************************************************************************)
EXTENDS Naturals, Sequences, FiniteSets

CONSTANTS
    Maps,           \* the maps of the pool frozen into the room
    Steps,          \* the steps of the preset: [kind, actor, series]
    Staff,          \* staff who run the room
    OrderMethods,   \* the ways Team A is found that rooms are made with
    TossMethods,    \* the ways the toss is made
    ControlModes,   \* who acts: captains or staff alone
    FavouredSlot,   \* the slot the seeds make Team A
    MatchTargets,   \* the statuses staff give the match by hand
    Syncs,          \* the Challonge syncs under way at a time: none, for a match of our own
    Upstream,       \* the statuses Challonge gives the match
    FirstStatus,    \* the status of the match when it is created
    MaxRevision,    \* bound: revisions of one room
    MaxRooms        \* bound: rooms made for the match, one after another

Slots == {1, 2}
MapKinds == {"ban", "pick", "decider"}

TERMINAL_MATCH_STATUSES == {"completed", "cancelled", "walkover"}
MATCH_STATUSES == TERMINAL_MATCH_STATUSES \union
    {"not_scheduled", "scheduled", "check_in_open", "veto_starting_soon",
     "veto_in_progress", "ready", "live", "delayed", "paused"}

\* What validateSteps lets a preset be: the maps suffice, at most one decider,
\* which leaves the pool empty and is followed by sides alone, one map a series
\* number.
ValidSteps(steps) ==
    LET at(kinds) == {i \in DOMAIN steps : steps[i].kind \in kinds}
        played == at({"pick", "decider"})
    IN  /\ \A i \in DOMAIN steps :
             steps[i].kind \in MapKinds \union {"side"}
             /\ steps[i].actor \in {"A", "B", "none"}
             /\ (steps[i].actor = "none") <=> (steps[i].kind = "decider")
        /\ Cardinality(at(MapKinds)) <= Cardinality(Maps)
        /\ \A i, j \in played : steps[i].series = steps[j].series => i = j
        /\ \A d \in at({"decider"}) :
             /\ Cardinality({i \in at(MapKinds) : i <= d}) = Cardinality(Maps)
             /\ \A i \in DOMAIN steps : i > d => steps[i].kind = "side"

LOCAL_OPERATIONAL_STATUSES ==
    {"check_in_open", "veto_starting_soon", "veto_in_progress", "ready", "delayed", "paused"}

ASSUME VetoAssumption ==
    /\ IsFiniteSet(Maps)
    /\ Steps \in Seq([kind: MapKinds \union {"side"}, actor: {"A", "B", "none"}, series: Nat])
    /\ Len(Steps) > 0 /\ ValidSteps(Steps)
    /\ Staff \intersect Slots = {}
    /\ OrderMethods \subseteq {"toss", "seed", "slot_order", "staff_assignment"}
    /\ TossMethods \subseteq {"digital", "manual"}
    /\ ControlModes \subseteq {"captain_or_link", "staff_only"}
    /\ FavouredSlot \in Slots
    /\ MatchTargets \subseteq MATCH_STATUSES
    /\ Upstream \subseteq {"completed", "live", "ready", "scheduled", "not_scheduled"}
    /\ FirstStatus \in MATCH_STATUSES
    /\ MaxRevision \in Nat /\ MaxRooms \in Nat

VARIABLES
    room,      \* the veto room of the match
    match,     \* the status of the match
    req,       \* the request of each captain and member of staff
    seen       \* the status of the match that each sync has read, "none" before

vars == <<room, match, req, seen>>

Clients == Slots \union Staff

\* A row of the record that has not been invalidated.  Slot 0 is no slot.
Rows == [seq: 1..Len(Steps), kind: MapKinds \union {"side"}, slot: {0, 1, 2}, map: Maps]

NoRoom == [status |-> "none", id |-> 0, revision |-> 0, order |-> "none", toss |-> "none",
           control |-> "none", before |-> "none", teamA |-> 0, winner |-> 0,
           ready |-> {}, step |-> 0, actions |-> {}]
Idle == [op |-> "idle", arg |-> 0, saw |-> NoRoom]

RoomType ==
    [status: {"none", "draft", "open", "toss_pending", "in_progress", "completed", "cancelled"},
     id: 0..MaxRooms, revision: 0..MaxRevision, order: OrderMethods \union {"none"},
     toss: TossMethods \union {"none"}, control: ControlModes \union {"none"},
     before: MATCH_STATUSES \union {"none"}, teamA: {0, 1, 2}, winner: {0, 1, 2},
     ready: SUBSET Slots, step: 0..Len(Steps), actions: SUBSET Rows]

Ops == {"idle", "open", "ready", "start", "assign", "toss", "choose", "act",
        "rewind", "reset", "cancel", "delete"}

TypeOK ==
    /\ room \in RoomType
    /\ match \in MATCH_STATUSES
    /\ \A c \in Clients : req[c].op \in Ops /\ req[c].saw \in RoomType
    /\ \A x \in Syncs : seen[x] \in MATCH_STATUSES \union {"none"}

Init ==
    /\ room = NoRoom
    /\ match = FirstStatus
    /\ req = [c \in Clients |-> Idle]
    /\ seen = [x \in Syncs |-> "none"]

-----------------------------------------------------------------------------
(* What a request may do to the room it reads.                             *)

\* Mutant: no team is also the other of a team.
Opposite(slot) == 3 - slot

Other(slot) == IF slot = 1 THEN 2 ELSE 1

\* actorSlotForStep.
TurnSlot(r, step) ==
    CASE step.actor = "A" -> r.teamA
      [] step.actor = "B" -> Other(r.teamA)
      [] OTHER -> 0

\* The team the client acts for (resolveAccess): staff act for any.
ActsFor(c, r, slot) ==
    c \in Staff \/ (r.control # "staff_only" /\ c = slot)

Used(rows) == {a.map : a \in rows}

\* The maps a step can name: a side is chosen on the map of its series.
MapsFor(r, step) ==
    IF step.kind \in {"ban", "pick"} THEN Maps \ Used(r.actions)
    ELSE {a.map : a \in {b \in r.actions : b.kind \in {"pick", "decider"}
                                           /\ Steps[b.seq].series = step.series}}

InitialTeamASlot(r) ==
    CASE r.order = "slot_order" -> 1
      [] r.order = "seed" -> FavouredSlot
      [] OTHER -> r.teamA

\* startRoom: the status it moves to, or "refused".
StartStatus(r) ==
    IF r.order = "toss" /\ r.winner = 0 THEN "toss_pending"
    ELSE IF r.order = "staff_assignment" /\ r.teamA = 0 THEN "refused"
    ELSE IF r.status = "open" THEN "in_progress" ELSE "refused"

DELETABLE_ROOM_STATUSES == {"draft", "cancelled", "completed"}

StaffRequests(r) ==
       [op: {x \in {"open"} : r.status = "draft"}, arg: {0}]
    \union [op: {x \in {"start"} : StartStatus(r) # "refused"}, arg: {0}]
    \union [op: {x \in {"assign"} : r.status \in {"draft", "open"}
                                    /\ r.order = "staff_assignment"}, arg: Slots]
    \union [op: {x \in {"toss"} : r.status = "toss_pending" /\ r.toss = "manual"}, arg: Slots]
    \union [op: {"rewind"}, arg: 0..r.step]
    \union [op: {"reset", "cancel"}, arg: {0}]
    \union [op: {x \in {"delete"} : r.status \in DELETABLE_ROOM_STATUSES}, arg: {0}]

\* A call, a choice of side or letter and the maps: open to captains as well.
\* Whose coin wins is chance, so the argument of a toss is the winner.
TeamRequests(c, r) ==
       [op: {x \in {"ready"} : r.status \in {"open", "toss_pending"}},
        arg: {s \in Slots : ActsFor(c, r, s)} \X BOOLEAN]
    \union [op: {x \in {"toss"} : r.status = "toss_pending" /\ r.toss = "digital"
                                  /\ ActsFor(c, r, 2)}, arg: Slots]
    \union [op: {x \in {"choose"} : r.status = "toss_pending" /\ r.winner # 0
                                    /\ ActsFor(c, r, r.winner)}, arg: Slots]
    \union (IF r.status = "in_progress" /\ r.step < Len(Steps)
            THEN LET step == Steps[r.step + 1]
                 IN [op: {x \in {"act"} : ActsFor(c, r, TurnSlot(r, step))},
                     arg: MapsFor(r, step)]
            ELSE {})

\* A request reads the room and passes its checks.
Reads(c) ==
    /\ req[c] = Idle /\ room.status # "none"
    /\ \E q \in TeamRequests(c, room) \union (IF c \in Staff THEN StaffRequests(room) ELSE {}) :
         req' = [req EXCEPT ![c] = [op |-> q.op, arg |-> q.arg, saw |-> room]]
    /\ UNCHANGED <<room, match, seen>>

-----------------------------------------------------------------------------
(* The transactions.                                                       *)

\* Mutant: the revision the client saw is not compared.
AnyRevision(c, op) ==
    /\ req[c].op = op
    /\ room.status # "none" /\ room.revision < MaxRevision
    /\ room.id = req[c].saw.id
    /\ req' = [req EXCEPT ![c] = Idle]
    /\ UNCHANGED seen

\* mutateRevision; MaxRevision bounds the counter.
MutateRevision(c, op) ==
    /\ req[c].op = op
    /\ room.status # "none" /\ room.revision < MaxRevision
    /\ room.id = req[c].saw.id /\ room.revision = req[c].saw.revision
    /\ req' = [req EXCEPT ![c] = Idle]
    /\ UNCHANGED seen

Next1 == room.revision + 1

\* syncMatchStatus.
SyncMatchStatus(from, to) == match' = IF match \in from THEN to ELSE match

OpenRoom(s) ==
    /\ MutateRevision(s, "open")
    /\ room' = [room EXCEPT !.status = "open", !.revision = Next1]
    /\ SyncMatchStatus({"not_scheduled", "scheduled", "check_in_open"}, "veto_starting_soon")

ReadyRoom(c) ==
    /\ MutateRevision(c, "ready")
    /\ room' = [room EXCEPT !.revision = Next1,
                  !.ready = IF req[c].arg[2] THEN @ \union {req[c].arg[1]}
                            ELSE @ \ {req[c].arg[1]}]
    /\ UNCHANGED match

\* Staff may force the start, so readiness holds nothing back.
StartRoom(s) ==
    LET to == StartStatus(req[s].saw) IN
    /\ MutateRevision(s, "start")
    /\ room' = [room EXCEPT !.status = to, !.revision = Next1,
                            !.teamA = InitialTeamASlot(req[s].saw)]
    /\ IF to = "in_progress"
       THEN SyncMatchStatus({"veto_starting_soon"}, "veto_in_progress")
       ELSE UNCHANGED match

AssignTeamA(s) ==
    /\ MutateRevision(s, "assign")
    /\ room' = [room EXCEPT !.teamA = req[s].arg, !.revision = Next1]
    /\ UNCHANGED match

\* tossRoom and recordManualToss.
TossRoom(c) ==
    /\ MutateRevision(c, "toss")
    /\ room' = [room EXCEPT !.winner = req[c].arg, !.revision = Next1]
    /\ UNCHANGED match

ChooseTeamA(c) ==
    /\ MutateRevision(c, "choose")
    /\ room' = [room EXCEPT !.teamA = req[c].arg, !.status = "in_progress", !.revision = Next1]
    /\ SyncMatchStatus({"veto_starting_soon"}, "veto_in_progress")

\* advanceAutomatic: a decider takes the map that is left.
Automatic(step, rows) ==
    IF step < Len(Steps) /\ Steps[step + 1].kind = "decider"
    THEN {[seq |-> step + 1, kind |-> "decider", slot |-> 0, map |-> m] : m \in Maps \ Used(rows)}
    ELSE {}

SubmitAction(c) ==
    LET saw == req[c].saw
        step == Steps[saw.step + 1]
        row == [seq |-> saw.step + 1, kind |-> step.kind,
                slot |-> TurnSlot(saw, step), map |-> req[c].arg]
        more == Automatic(saw.step + 1, saw.actions \union {row})
        now == saw.step + 1 + Cardinality(more)
        complete == now = Len(Steps)
    IN
    /\ MutateRevision(c, "act")
    /\ Cardinality(more) <= 1
    /\ room' = [room EXCEPT !.revision = Next1, !.step = now,
                  !.actions = @ \union {row} \union more,
                  !.status = IF complete THEN "completed" ELSE "in_progress"]
    /\ IF complete
       THEN SyncMatchStatus({"veto_in_progress", "veto_starting_soon"}, "ready")
       ELSE UNCHANGED match

\* Mutant: the rows the rewind undoes stay in the record.
KeptAll(rows, to) == rows

KeptTo(rows, to) == {a \in rows : a.seq <= to}

RewindRoom(s) ==
    LET to == req[s].arg
        rows == KeptTo(room.actions, to)
        more == Automatic(to, rows)
    IN
    /\ MutateRevision(s, "rewind")
    /\ Cardinality(more) <= 1
    /\ room' = [room EXCEPT !.status = "in_progress", !.revision = Next1,
                  !.step = to + Cardinality(more), !.actions = rows \union more]
    /\ SyncMatchStatus({"ready"}, "veto_in_progress")

ResetRoom(s) ==
    /\ MutateRevision(s, "reset")
    /\ room' = [room EXCEPT !.status = "open", !.winner = 0, !.teamA = 0, !.step = 0,
                  !.ready = {}, !.actions = {}, !.revision = Next1]
    /\ SyncMatchStatus({"ready", "veto_in_progress"}, "veto_starting_soon")

\* Mutant: a cancelled room keeps the match.
CancelledStatus == match

\* Cancelling hands the match back the status it had before the room.
RestoredStatus ==
    IF match \in {"veto_starting_soon", "veto_in_progress"} THEN room.before ELSE match

CancelRoom(s) ==
    /\ MutateRevision(s, "cancel")
    /\ room' = [room EXCEPT !.status = "cancelled", !.revision = Next1]
    /\ match' = RestoredStatus

\* deleteRoom: by the room's id alone.
DeleteRoom(s) ==
    /\ req[s].op = "delete" /\ room.status # "none" /\ room.id = req[s].saw.id
    /\ room' = [NoRoom EXCEPT !.id = room.id]
    /\ req' = [req EXCEPT ![s] = Idle]
    /\ UNCHANGED <<match, seen>>

\* The answer 409 or 404: the room changed or is gone.
Refused(c) ==
    /\ req[c] # Idle
    /\ \/ room.status = "none" \/ room.id # req[c].saw.id
       \/ req[c].op # "delete" /\ room.revision # req[c].saw.revision
    /\ req' = [req EXCEPT ![c] = Idle]
    /\ UNCHANGED <<room, match, seen>>

-----------------------------------------------------------------------------
(* The room is made, and the match moves.                                  *)

\* createRoom makes a draft, ensureMatchVetoRoom an open room; matchId is
\* unique, so a second one is refused or finds the first.
MakesRoom(status) ==
    /\ room.status = "none" /\ room.id < MaxRooms
    /\ match \notin TERMINAL_MATCH_STATUSES
    /\ \E o \in OrderMethods, t \in TossMethods, m \in ControlModes :
         room' = [NoRoom EXCEPT !.id = room.id + 1, !.status = status, !.order = o,
                                !.toss = t, !.control = m, !.before = match]
    /\ UNCHANGED <<match, req, seen>>

CreateRoom == MakesRoom("draft")
EnsureMatchVetoRoom == MakesRoom("open")

\* updateMatch: staff set the status whatever the room says.
UpdateMatch ==
    /\ \E to \in MatchTargets : match' = to
    /\ UNCHANGED <<room, req, seen>>

\* syncSnapshotToMatches reads the status of the match, and later, in its
\* transaction, writes that back when it is one of the site's own and Challonge
\* does not say the match is complete, or else what Challonge says.
SyncReads(x) ==
    /\ seen[x] = "none"
    /\ seen' = [seen EXCEPT ![x] = match]
    /\ UNCHANGED <<room, match, req>>

SyncWrites(x) ==
    /\ seen[x] # "none"
    /\ \E upstream \in Upstream :
         match' = IF seen[x] \in LOCAL_OPERATIONAL_STATUSES /\ upstream # "completed"
                  THEN seen[x] ELSE upstream
    /\ seen' = [seen EXCEPT ![x] = "none"]
    /\ UNCHANGED <<room, req>>

-----------------------------------------------------------------------------
\* Those who write the match past the room.
Beside == UpdateMatch \/ \E x \in Syncs : SyncReads(x) \/ SyncWrites(x)

Requests ==
    \/ CreateRoom \/ EnsureMatchVetoRoom
    \/ \E c \in Clients : Reads(c) \/ ReadyRoom(c) \/ TossRoom(c) \/ ChooseTeamA(c)
                          \/ SubmitAction(c) \/ Refused(c)
    \/ \E s \in Staff : OpenRoom(s) \/ StartRoom(s) \/ AssignTeamA(s) \/ RewindRoom(s)
                        \/ ResetRoom(s) \/ CancelRoom(s) \/ DeleteRoom(s)

Next == Beside \/ Requests

Spec == Init /\ [][Next]_vars

-----------------------------------------------------------------------------
(* What holds.                                                             *)

\* The record is the preset carried out so far: one row a step, of the step's
\* kind, no map banned or picked twice, and a side chosen on the map its series
\* plays.  No two requests of the same turn both land, and a rewind leaves
\* nothing of what it undoes.
RecordFollowsSteps ==
    /\ \A i \in 1..Len(Steps) :
         Cardinality({a \in room.actions : a.seq = i}) = (IF i <= room.step THEN 1 ELSE 0)
    /\ \A a \in room.actions : a.kind = Steps[a.seq].kind
    /\ \A a, b \in room.actions :
         /\ a.kind \in MapKinds /\ b.kind \in MapKinds /\ a.map = b.map => a = b
         /\ /\ a.kind = "side" /\ b.kind \in {"pick", "decider"}
            /\ Steps[a.seq].series = Steps[b.seq].series
            => a.map = b.map

\* A captain's choice lands only while the veto runs, on a turn of their team
\* as the room stands when it lands.
TurnsKept == [][\A c \in Slots :
    SubmitAction(c) => /\ room.status = "in_progress"
                       /\ room.step < Len(Steps)
                       /\ TurnSlot(room, Steps[room.step + 1]) = c]_vars

Waiting == {"veto_starting_soon", "veto_in_progress"}

\* The match waits on a veto that there is not to play.
LeftWaiting == match \in Waiting /\ room.status \notin {"open", "toss_pending", "in_progress"}

\* No request leaves the match waiting: a veto that is completed, cancelled or
\* deleted leaves it ready or where it was.  It is a Challonge sync that may write
\* a waiting status back after the veto it waited on, or staff by hand; a room
\* made on such a match gives that status back when it is cancelled.
MatchNotLeftWaiting ==
    [][LeftWaiting' => LeftWaiting \/ Beside \/ room.before \in Waiting]_vars

=============================================================================
