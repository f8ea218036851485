--------------------------- MODULE VetoRoomProofs ---------------------------
(***************************************************************************)
(* Theorems about VetoRoom, for every pool of maps, every preset that      *)
(* validateSteps lets through, any number of staff and every bound.        *)
(***************************************************************************)
EXTENDS VetoRoom, FiniteSetTheorems, TLAPS

PlayedKinds == {"pick", "decider"}

-----------------------------------------------------------------------------
(* The record.                                                             *)

\* The rows are those of steps 1..n of the preset, in the form a step can extend:
\* a side has a map of its series before it.
Sound(rows, n) ==
    /\ rows \subseteq Rows
    /\ \A a \in rows : a.seq <= n /\ a.kind = Steps[a.seq].kind
    /\ \A i \in 1..n : \E a \in rows : a.seq = i
    /\ \A a, b \in rows : a.seq = b.seq => a = b
    /\ \A a, b \in rows : a.kind \in MapKinds /\ b.kind \in MapKinds /\ a.map = b.map => a = b
    /\ \A a \in rows : a.kind = "side" =>
         \E b \in rows : /\ b.seq < a.seq /\ b.kind \in PlayedKinds /\ b.map = a.map
                         /\ Steps[b.seq].series = Steps[a.seq].series

\* A row that may come next: its map is not used yet, or it is a side on a map
\* of its series.
Extends(row, rows) ==
    /\ row.kind \in MapKinds => row.map \notin Used(rows)
    /\ row.kind = "side" =>
         \E b \in rows : /\ b.kind \in PlayedKinds /\ b.map = row.map
                         /\ Steps[b.seq].series = Steps[row.seq].series

LEMMA Extended ==
    ASSUME NEW n \in Nat, NEW rows, Sound(rows, n),
           NEW row \in Rows, row.seq = n + 1, row.kind = Steps[n + 1].kind, Extends(row, rows)
    PROVE  Sound(rows \union {row}, n + 1)
  <1> DEFINE all == rows \union {row}
  <1>1. \A a \in all : a \in Rows /\ a.seq \in Nat /\ (a \in rows => a.seq <= n)
    BY DEF Sound, Rows
  <1>2. /\ all \subseteq Rows
        /\ \A a \in all : a.seq <= n + 1 /\ a.kind = Steps[a.seq].kind
    BY <1>1 DEF Sound
  <1>3. \A i \in 1..(n + 1) : \E a \in all : a.seq = i
    <2>1. \A i \in 1..(n + 1) : i \in 1..n \/ i = n + 1
      OBVIOUS
    <2> QED BY <2>1 DEF Sound
  <1>4. \A a, b \in all : a.seq = b.seq => a = b
    BY <1>1 DEF Sound
  <1>5. \A a, b \in all :
          a.kind \in MapKinds /\ b.kind \in MapKinds /\ a.map = b.map => a = b
    BY DEF Sound, Extends, Used
  <1>6. \A a \in all : a.kind = "side" =>
          \E b \in all : /\ b.seq < a.seq /\ b.kind \in PlayedKinds /\ b.map = a.map
                         /\ Steps[b.seq].series = Steps[a.seq].series
    <2>1. CASE row.kind = "side"
      <3>1. PICK b \in rows : /\ b.kind \in PlayedKinds /\ b.map = row.map
                              /\ Steps[b.seq].series = Steps[row.seq].series
        BY <2>1 DEF Extends
      <3>2. b.seq < row.seq
        BY <1>1
      <3> QED BY <3>1, <3>2 DEF Sound
    <2>2. CASE row.kind # "side"
      BY <2>2 DEF Sound
    <2> QED BY <2>1, <2>2
  <1> QED BY <1>2, <1>3, <1>4, <1>5, <1>6 DEF Sound

LEMMA KeptSound ==
    ASSUME NEW n \in Nat, NEW rows, Sound(rows, n), NEW to \in 0..n
    PROVE  Sound(KeptTo(rows, to), to)
  <1> DEFINE kept == KeptTo(rows, to)
  <1>1. kept \subseteq rows /\ \A a \in kept : a.seq <= to
    BY DEF KeptTo
  <1>2. \A a \in rows : a.seq \in Nat
    BY DEF Sound, Rows
  <1>3. \A i \in 1..to : \E a \in kept : a.seq = i
    BY DEF Sound, KeptTo
  <1>4. \A a \in kept : a.kind = "side" =>
          \E b \in kept : /\ b.seq < a.seq /\ b.kind \in PlayedKinds /\ b.map = a.map
                          /\ Steps[b.seq].series = Steps[a.seq].series
    <2> SUFFICES ASSUME NEW a \in kept, a.kind = "side"
                 PROVE  \E b \in kept :
                          /\ b.seq < a.seq /\ b.kind \in PlayedKinds /\ b.map = a.map
                          /\ Steps[b.seq].series = Steps[a.seq].series
      OBVIOUS
    <2>1. PICK b \in rows : /\ b.seq < a.seq /\ b.kind \in PlayedKinds /\ b.map = a.map
                            /\ Steps[b.seq].series = Steps[a.seq].series
      BY <1>1 DEF Sound
    <2>2. b \in kept
      BY <1>1, <1>2, <2>1 DEF KeptTo
    <2> QED BY <2>1, <2>2
  <1>5. /\ kept \subseteq Rows
        /\ \A a \in kept : a.seq <= to /\ a.kind = Steps[a.seq].kind
        /\ \A a, b \in kept : a.seq = b.seq => a = b
        /\ \A a, b \in kept :
             a.kind \in MapKinds /\ b.kind \in MapKinds /\ a.map = b.map => a = b
    BY <1>1 DEF Sound
  <1> QED BY <1>3, <1>4, <1>5 DEF Sound

\* A set that is an image of the maps is finite.
LEMMA OfMapsFinite ==
    ASSUME NEW i, NEW free \in SUBSET Maps
    PROVE  IsFiniteSet({[seq |-> i, kind |-> "decider", slot |-> 0, map |-> m] : m \in free})
  <1> DEFINE T == {[seq |-> i, kind |-> "decider", slot |-> 0, map |-> m] : m \in free}
             f == [m \in free |-> [seq |-> i, kind |-> "decider", slot |-> 0, map |-> m]]
  <1>1. IsFiniteSet(free)
    BY FS_Subset, VetoAssumption DEF VetoAssumption
  <1>2. f \in Surjection(free, T)
    BY DEF Surjection
  <1> HIDE DEF f, T
  <1>3. IsFiniteSet(T)
    BY <1>1, <1>2, FS_Surjection
  <1> QED BY <1>3 DEF T

\* advanceAutomatic goes on by the step it fills, and keeps the record sound.
LEMMA AutomaticSound ==
    ASSUME NEW n \in 0..Len(Steps), NEW rows, Sound(rows, n),
           Cardinality(Automatic(n, rows)) <= 1
    PROVE  /\ n + Cardinality(Automatic(n, rows)) \in 0..Len(Steps)
           /\ Sound(rows \union Automatic(n, rows), n + Cardinality(Automatic(n, rows)))
  <1> DEFINE more == Automatic(n, rows)
             free == Maps \ Used(rows)
  <1>1. CASE ~(n < Len(Steps) /\ Steps[n + 1].kind = "decider")
    <2>1. more = {} /\ Cardinality(more) = 0
      BY <1>1, FS_EmptySet DEF Automatic
    <2>2. n + Cardinality(more) = n /\ rows \union more = rows
      BY <2>1
    <2> QED BY <2>2
  <1>2. CASE n < Len(Steps) /\ Steps[n + 1].kind = "decider"
    <2>1. more = {[seq |-> n + 1, kind |-> "decider", slot |-> 0, map |-> m] : m \in free}
      BY <1>2 DEF Automatic
    <2>2. IsFiniteSet(more)
      BY <2>1, OfMapsFinite
    <2>3. Cardinality(more) \in Nat
      BY <2>2, FS_CardinalityType
    <2>4. Len(Steps) \in Nat
      BY VetoAssumption DEF VetoAssumption
    <2>5. CASE Cardinality(more) = 0
      <3>1. more = {}
        BY <2>2, <2>5, FS_EmptySet
      <3>2. n + Cardinality(more) = n /\ rows \union more = rows
        BY <2>5, <3>1
      <3> QED BY <3>2
    <2>6. CASE Cardinality(more) = 1
      <3>1. PICK row : more = {row}
        BY <2>2, <2>6, FS_Singleton
      <3>2. PICK m \in free :
              row = [seq |-> n + 1, kind |-> "decider", slot |-> 0, map |-> m]
        BY <2>1, <3>1
      <3>3. n + 1 \in 1..Len(Steps)
        BY <1>2, <2>4
      <3>4. row \in Rows /\ row.seq = n + 1 /\ row.kind = Steps[n + 1].kind
        BY <1>2, <3>2, <3>3 DEF Rows, MapKinds
      <3>5. Extends(row, rows)
        BY <3>2 DEF Extends
      <3>6. Sound(rows \union {row}, n + 1)
        BY <3>4, <3>5, Extended
      <3> QED BY <2>6, <3>1, <3>3, <3>6
    <2> QED BY <2>3, <2>5, <2>6
  <1> QED BY <1>1, <1>2

-----------------------------------------------------------------------------
(* The inductive invariant.                                                *)

TypeAll ==
    /\ room \in RoomType /\ match \in MATCH_STATUSES
    /\ \A c \in Clients : req[c].op \in Ops /\ req[c].saw \in RoomType
    /\ req = [c \in Clients |-> req[c]]
    /\ room.status # "none" => room.before \in MATCH_STATUSES

\* What a request found when it read the room it will act on.
Passed(c) ==
    LET q == req[c]  r == q.saw IN
    /\ q.op = "ready" => q.arg \in Slots \X BOOLEAN
    /\ q.op \in {"toss", "choose", "assign"} => q.arg \in Slots
    /\ q.op = "choose" => r.status = "toss_pending"
    /\ q.op = "start" => StartStatus(r) # "refused"
    /\ q.op = "rewind" => q.arg \in 0..r.step
    /\ q.op = "act" => /\ r.status = "in_progress" /\ r.step < Len(Steps)
                       /\ ActsFor(c, r, TurnSlot(r, Steps[r.step + 1]))
                       /\ q.arg \in MapsFor(r, Steps[r.step + 1])
    /\ q.op = "delete" => c \in Staff /\ r.status \in DELETABLE_ROOM_STATUSES

\* The revision names the room: a request that saw the current revision saw the
\* current room.  Rooms do not come back, and their revisions grow.
RevisionNames(c) ==
    LET r == req[c].saw IN
    req[c].op # "idle" =>
        /\ r.id <= room.id
        /\ r.id = room.id /\ room.status # "none" =>
             /\ r.revision <= room.revision
             /\ r.revision = room.revision => r = room

IInv ==
    /\ TypeAll
    /\ \A c \in Clients : Passed(c) /\ RevisionNames(c)
    /\ Sound(room.actions, room.step)

\* What the transaction of a request starts from.
Lands(c, op) == MutateRevision(c, op) /\ Passed(c) /\ req[c].saw = room

LEMMA LandsOnWhatItSaw ==
    ASSUME IInv, NEW c \in Clients, NEW op \in Ops \ {"idle"}, MutateRevision(c, op)
    PROVE  Lands(c, op)
  <1>1. req[c].op # "idle" /\ Passed(c) /\ RevisionNames(c)
    BY DEF IInv, MutateRevision
  <1> QED BY <1>1 DEF Lands, RevisionNames, MutateRevision

\* A step that answers one request, and makes the next revision of the room or
\* none, keeps what every other request passed and what revisions name.
LEMMA RequestsKept ==
    ASSUME IInv, NEW c \in Clients, req' = [req EXCEPT ![c] = Idle],
           \/ room' = room
           \/ /\ room.status # "none" /\ room'.id = room.id
              /\ room'.status = "none" \/ room'.revision = room.revision + 1
    PROVE  /\ \A d \in Clients : Passed(d)' /\ RevisionNames(d)'
           /\ req' = [d \in Clients |-> req'[d]]
           /\ \A d \in Clients : req'[d].op \in Ops /\ req'[d].saw \in RoomType
  <1>1. req = [d \in Clients |-> req[d]] /\ room \in RoomType
    BY DEF IInv, TypeAll
  <1>2. req' = [d \in Clients |-> IF d = c THEN Idle ELSE req[d]]
    BY <1>1
  <1>3. NoRoom \in RoomType
    BY VetoAssumption DEF VetoAssumption, NoRoom, RoomType
  <1>4. ASSUME NEW d \in Clients
        PROVE  /\ Passed(d)' /\ RevisionNames(d)'
               /\ req'[d].op \in Ops /\ req'[d].saw \in RoomType
    <2>1. CASE d = c
      <3>1. req'[d] = Idle
        BY <1>2, <2>1
      <3> QED BY <1>3, <3>1 DEF Idle, Passed, RevisionNames, Ops
    <2>2. CASE d # c
      <3>1. req'[d] = req[d]
        BY <1>2, <2>2
      <3>2. Passed(d) /\ RevisionNames(d) /\ req[d].op \in Ops /\ req[d].saw \in RoomType
        BY DEF IInv, TypeAll
      <3>3. Passed(d)'
        BY <3>1, <3>2 DEF Passed, StartStatus, ActsFor, TurnSlot, MapsFor, Used
      <3>4. /\ req[d].saw.revision \in Nat /\ room.revision \in Nat
            /\ req[d].saw.id \in Nat /\ room.id \in Nat
        BY <1>1, <3>2 DEF RoomType
      <3>5. RevisionNames(d)'
        BY <3>1, <3>2, <3>4 DEF RevisionNames
      <3> QED BY <3>1, <3>2, <3>3, <3>5
    <2> QED BY <2>1, <2>2
  <1> QED BY <1>2, <1>4

LEMMA InitIInv == Init => IInv
  <1> SUFFICES ASSUME Init PROVE IInv
    OBVIOUS
  <1>1. room = NoRoom /\ NoRoom \in RoomType /\ match \in MATCH_STATUSES
    BY VetoAssumption DEF Init, VetoAssumption, NoRoom, RoomType
  <1>2. \A c \in Clients : req[c] = Idle
    BY DEF Init
  <1>3. TypeAll
    <2>1. req = [c \in Clients |-> req[c]]
      BY <1>2 DEF Init
    <2>2. \A c \in Clients : req[c].op \in Ops /\ req[c].saw \in RoomType
      BY <1>1, <1>2 DEF Idle, Ops
    <2>3. room.status = "none"
      BY <1>1 DEF NoRoom
    <2> QED BY <1>1, <2>1, <2>2, <2>3 DEF TypeAll
  <1>4. \A c \in Clients : Passed(c) /\ RevisionNames(c)
    BY <1>2 DEF Idle, Passed, RevisionNames
  <1>5. Sound(room.actions, room.step)
    BY <1>1 DEF Sound, NoRoom
  <1> QED BY <1>3, <1>4, <1>5 DEF IInv

-----------------------------------------------------------------------------
(* Every transaction keeps it.                                             *)

LEMMA MatchTyped ==
    ASSUME IInv, NEW from, NEW to \in MATCH_STATUSES, SyncMatchStatus(from, to)
    PROVE  match' \in MATCH_STATUSES
  BY DEF IInv, TypeAll, SyncMatchStatus

\* What is left to show of a transaction that compares the revision.
LEMMA WriteKeeps ==
    ASSUME IInv, NEW c \in Clients, NEW op \in Ops \ {"idle"}, MutateRevision(c, op),
           room' \in RoomType, room'.id = room.id, room'.revision = room.revision + 1,
           room'.before = room.before, Sound(room.actions, room.step)',
           match' \in MATCH_STATUSES
    PROVE  IInv'
  <1>1. room.status # "none" /\ room.before \in MATCH_STATUSES
    BY DEF IInv, TypeAll, MutateRevision
  <1>2. req' = [req EXCEPT ![c] = Idle]
    BY DEF MutateRevision
  <1>3. /\ \A d \in Clients : Passed(d)' /\ RevisionNames(d)'
        /\ req' = [d \in Clients |-> req'[d]]
        /\ \A d \in Clients : req'[d].op \in Ops /\ req'[d].saw \in RoomType
    BY <1>1, <1>2, RequestsKept
  <1>4. TypeAll'
    BY <1>1, <1>3 DEF TypeAll
  <1> QED BY <1>3, <1>4 DEF IInv

\* The next revision exists, and the fields a transaction leaves alone are typed.
LEMMA RoomFields ==
    ASSUME IInv, NEW c \in Clients, NEW op, MutateRevision(c, op)
    PROVE  /\ room \in RoomType /\ Next1 \in 0..MaxRevision
           /\ match \in MATCH_STATUSES
           /\ Sound(room.actions, room.step)
           /\ room.status # "none" /\ room.before \in MATCH_STATUSES
  <1>1. room.revision \in 0..MaxRevision /\ room.revision < MaxRevision
    BY DEF IInv, TypeAll, RoomType, MutateRevision
  <1>2. MaxRevision \in Nat
    BY VetoAssumption DEF VetoAssumption
  <1> QED BY <1>1, <1>2 DEF IInv, TypeAll, MutateRevision, Next1

LEMMA OpenKeeps ==
    ASSUME IInv, NEW s \in Staff, OpenRoom(s)
    PROVE  IInv'
  <1> s \in Clients
    BY DEF Clients
  <1>1. MutateRevision(s, "open") /\ "open" \in Ops \ {"idle"}
    BY DEF OpenRoom, Ops
  <1>2. /\ room \in RoomType /\ Next1 \in 0..MaxRevision
        /\ Sound(room.actions, room.step)
    BY <1>1, RoomFields
  <1>3. room' = [room EXCEPT !.status = "open", !.revision = Next1]
    BY DEF OpenRoom
  <1>4. /\ room' \in RoomType /\ room'.id = room.id /\ room'.revision = room.revision + 1
        /\ room'.before = room.before /\ Sound(room.actions, room.step)'
    BY <1>2, <1>3 DEF RoomType, Next1
  <1>5. match' \in MATCH_STATUSES
    BY MatchTyped DEF OpenRoom, MATCH_STATUSES
  <1> QED BY <1>1, <1>4, <1>5, WriteKeeps

LEMMA ReadyKeeps ==
    ASSUME IInv, NEW c \in Clients, ReadyRoom(c)
    PROVE  IInv'
  <1>1. MutateRevision(c, "ready") /\ "ready" \in Ops \ {"idle"}
    BY DEF ReadyRoom, Ops
  <1>2. /\ room \in RoomType /\ Next1 \in 0..MaxRevision
        /\ match \in MATCH_STATUSES /\ Sound(room.actions, room.step)
    BY <1>1, RoomFields
  <1>3. req[c].arg[1] \in Slots
    BY <1>1 DEF IInv, Passed, MutateRevision
  <1>4. PICK now \in SUBSET Slots : room' = [room EXCEPT !.revision = Next1, !.ready = now]
    <2> DEFINE now == IF req[c].arg[2] THEN room.ready \union {req[c].arg[1]}
                      ELSE room.ready \ {req[c].arg[1]}
    <2>1. now \in SUBSET Slots
      BY <1>2, <1>3 DEF RoomType
    <2>2. room' = [room EXCEPT !.revision = Next1, !.ready = now]
      BY DEF ReadyRoom
    <2> QED BY <2>1, <2>2
  <1>5. /\ room' \in RoomType /\ room'.id = room.id /\ room'.revision = room.revision + 1
        /\ room'.before = room.before /\ Sound(room.actions, room.step)'
    BY <1>2, <1>4 DEF RoomType, Next1
  <1>6. match' \in MATCH_STATUSES
    BY <1>2 DEF ReadyRoom
  <1> QED BY <1>1, <1>5, <1>6, WriteKeeps

LEMMA StartKeeps ==
    ASSUME IInv, NEW s \in Staff, StartRoom(s)
    PROVE  IInv'
  <1> s \in Clients
    BY DEF Clients
  <1>1. MutateRevision(s, "start") /\ "start" \in Ops \ {"idle"}
    BY DEF StartRoom, Ops
  <1>2. /\ room \in RoomType /\ Next1 \in 0..MaxRevision
        /\ match \in MATCH_STATUSES /\ Sound(room.actions, room.step)
    BY <1>1, RoomFields
  <1>3. Lands(s, "start")
    BY <1>1, LandsOnWhatItSaw
  <1>4. StartStatus(room) \in {"toss_pending", "in_progress"}
    BY <1>1, <1>3 DEF Lands, Passed, StartStatus, MutateRevision
  <1>5. InitialTeamASlot(room) \in {0, 1, 2}
    BY <1>2, VetoAssumption DEF InitialTeamASlot, RoomType, VetoAssumption, Slots
  <1>6. room' = [room EXCEPT !.status = StartStatus(room), !.revision = Next1,
                             !.teamA = InitialTeamASlot(room)]
    BY <1>3 DEF StartRoom, Lands
  <1>7. /\ room' \in RoomType /\ room'.id = room.id /\ room'.revision = room.revision + 1
        /\ room'.before = room.before /\ Sound(room.actions, room.step)'
    BY <1>2, <1>4, <1>5, <1>6 DEF RoomType, Next1
  <1>8. match' \in MATCH_STATUSES
    BY <1>2, MatchTyped DEF StartRoom, MATCH_STATUSES
  <1> QED BY <1>1, <1>7, <1>8, WriteKeeps

\* A slot that staff assign, a captain chooses, or a coin finds.
LEMMA SlotKeeps ==
    ASSUME IInv, NEW c \in Clients, AssignTeamA(c) \/ TossRoom(c) \/ ChooseTeamA(c)
    PROVE  IInv'
  <1>1. PICK op \in {"assign", "toss", "choose"} :
           /\ MutateRevision(c, op) /\ op \in Ops \ {"idle"}
           /\ \/ op = "assign" /\ AssignTeamA(c)
              \/ op = "toss" /\ TossRoom(c)
              \/ op = "choose" /\ ChooseTeamA(c)
    BY DEF AssignTeamA, TossRoom, ChooseTeamA, Ops
  <1>2. /\ room \in RoomType /\ Next1 \in 0..MaxRevision
        /\ match \in MATCH_STATUSES /\ Sound(room.actions, room.step)
    BY <1>1, RoomFields
  <1>3. req[c].arg \in {0, 1, 2}
    BY <1>1 DEF IInv, Passed, MutateRevision, Slots
  <1>4. \/ room' = [room EXCEPT !.teamA = req[c].arg, !.revision = Next1]
        \/ room' = [room EXCEPT !.winner = req[c].arg, !.revision = Next1]
        \/ room' = [room EXCEPT !.teamA = req[c].arg, !.status = "in_progress",
                                !.revision = Next1]
    BY <1>1 DEF AssignTeamA, TossRoom, ChooseTeamA
  <1>5. /\ room' \in RoomType /\ room'.id = room.id /\ room'.revision = room.revision + 1
        /\ room'.before = room.before /\ Sound(room.actions, room.step)'
    BY <1>2, <1>3, <1>4 DEF RoomType, Next1
  <1>6. match' \in MATCH_STATUSES
    BY <1>1, <1>2, MatchTyped DEF AssignTeamA, TossRoom, ChooseTeamA, MATCH_STATUSES
  <1> QED BY <1>1, <1>5, <1>6, WriteKeeps

LEMMA StepTyped ==
    ASSUME NEW i \in 1..Len(Steps)
    PROVE  Steps[i].kind \in MapKinds \union {"side"} /\ i \in DOMAIN Steps
  <1> DEFINE StepSet == [kind: MapKinds \union {"side"}, actor: {"A", "B", "none"}, series: Nat]
  <1>1. Steps \in Seq(StepSet)
    BY VetoAssumption DEF VetoAssumption
  <1>2. Steps[i] \in StepSet /\ i \in DOMAIN Steps
    <2> HIDE DEF StepSet
    <2> QED BY <1>1
  <1> QED BY <1>2

\* The row of a captain's choice, on the room as it is.
LEMMA RowFits ==
    ASSUME IInv, NEW c \in Clients, Lands(c, "act"),
           NEW row, row = [seq |-> room.step + 1, kind |-> Steps[room.step + 1].kind,
                           slot |-> TurnSlot(room, Steps[room.step + 1]), map |-> req[c].arg]
    PROVE  /\ room.step \in Nat /\ room.step + 1 \in 0..Len(Steps)
           /\ Sound(room.actions \union {row}, room.step + 1)
  <1> DEFINE step == Steps[room.step + 1]
  <1>1. room \in RoomType /\ Sound(room.actions, room.step)
    BY DEF IInv, TypeAll
  <1>2. /\ room.step < Len(Steps) /\ req[c].arg \in MapsFor(room, step)
    BY DEF Lands, Passed, MutateRevision
  <1>3. /\ Len(Steps) \in Nat /\ room.step \in Nat
        /\ room.step + 1 \in 1..Len(Steps)
    BY <1>1, <1>2, VetoAssumption DEF RoomType, VetoAssumption
  <1>4. step.kind \in MapKinds \union {"side"}
    BY <1>3, StepTyped
  <1>5. TurnSlot(room, step) \in {0, 1, 2}
    BY <1>1 DEF TurnSlot, Other, RoomType
  <1>6. req[c].arg \in Maps
    BY <1>1, <1>2 DEF MapsFor, Sound, Rows
  <1>7. row \in Rows
    BY <1>3, <1>4, <1>5, <1>6 DEF Rows
  <1>8. Extends(row, room.actions)
    <2>1. CASE step.kind \in {"ban", "pick"}
      BY <1>2, <2>1 DEF Extends, MapsFor
    <2>2. CASE step.kind = "side"
      BY <1>2, <2>2 DEF Extends, MapsFor, MapKinds, PlayedKinds
    <2>3. CASE step.kind = "decider"
      <3>1. PICK b \in room.actions : b.kind \in PlayedKinds /\ Steps[b.seq].series = step.series
        BY <1>2, <2>3 DEF MapsFor, PlayedKinds
      <3>2. b \in Rows /\ b.seq <= room.step /\ b.kind = Steps[b.seq].kind
        BY <1>1, <3>1 DEF Sound
      <3>3. b.seq \in DOMAIN Steps /\ room.step + 1 \in DOMAIN Steps /\ b.seq < room.step + 1
        BY <1>3, <3>2, VetoAssumption DEF Rows, VetoAssumption
      <3>4. FALSE
        BY <2>3, <3>1, <3>2, <3>3, VetoAssumption DEF VetoAssumption, ValidSteps, PlayedKinds
      <3> QED BY <3>4
    <2> QED BY <1>4, <2>1, <2>2, <2>3 DEF MapKinds
  <1>9. Sound(room.actions \union {row}, room.step + 1)
    BY <1>1, <1>3, <1>7, <1>8, Extended
  <1> QED BY <1>3, <1>9

LEMMA SubmitKeeps ==
    ASSUME IInv, NEW c \in Clients, SubmitAction(c)
    PROVE  IInv'
  <1> DEFINE step == Steps[room.step + 1]
             row == [seq |-> room.step + 1, kind |-> step.kind,
                     slot |-> TurnSlot(room, step), map |-> req[c].arg]
             rows == room.actions \union {row}
             more == Automatic(room.step + 1, rows)
             now == room.step + 1 + Cardinality(more)
  <1>1. MutateRevision(c, "act") /\ "act" \in Ops \ {"idle"}
    BY DEF SubmitAction, Ops
  <1>2. /\ room \in RoomType /\ Next1 \in 0..MaxRevision /\ match \in MATCH_STATUSES
    BY <1>1, RoomFields
  <1>3. Lands(c, "act")
    BY <1>1, LandsOnWhatItSaw
  <1>4. /\ Cardinality(more) <= 1
        /\ \E to \in {"completed", "in_progress"} :
             room' = [room EXCEPT !.revision = Next1, !.step = now,
                                  !.actions = @ \union {row} \union more, !.status = to]
    BY <1>3 DEF SubmitAction, Lands
  <1>5. /\ room.step \in Nat /\ room.step + 1 \in 0..Len(Steps)
        /\ Sound(rows, room.step + 1)
    BY <1>3, RowFits
  <1>6. now \in 0..Len(Steps) /\ Sound(rows \union more, now)
    BY <1>4, <1>5, AutomaticSound
  <1>7. rows \union more \subseteq Rows
    BY <1>6 DEF Sound
  <1> HIDE DEF more, now, row
  <1>8. /\ room' \in RoomType /\ room'.id = room.id /\ room'.revision = room.revision + 1
        /\ room'.before = room.before
        /\ room'.step = now /\ room'.actions = rows \union more
    BY <1>2, <1>4, <1>6, <1>7 DEF RoomType, Next1
  <1>9. match' \in MATCH_STATUSES
    BY <1>2, MatchTyped DEF SubmitAction, MATCH_STATUSES
  <1> QED BY <1>1, <1>6, <1>8, <1>9, WriteKeeps

LEMMA RewindKeeps ==
    ASSUME IInv, NEW s \in Staff, RewindRoom(s)
    PROVE  IInv'
  <1> DEFINE to == req[s].arg
             rows == KeptTo(room.actions, to)
             more == Automatic(to, rows)
             now == to + Cardinality(more)
  <1> s \in Clients
    BY DEF Clients
  <1>1. MutateRevision(s, "rewind") /\ "rewind" \in Ops \ {"idle"}
    BY DEF RewindRoom, Ops
  <1>2. /\ room \in RoomType /\ Next1 \in 0..MaxRevision /\ match \in MATCH_STATUSES
        /\ Sound(room.actions, room.step)
    BY <1>1, RoomFields
  <1>3. Lands(s, "rewind")
    BY <1>1, LandsOnWhatItSaw
  <1>4. to \in 0..room.step /\ room.step \in Nat /\ to \in 0..Len(Steps)
    BY <1>1, <1>2, <1>3, VetoAssumption
       DEF Lands, Passed, MutateRevision, RoomType, VetoAssumption
  <1>5. Sound(rows, to)
    BY <1>2, <1>4, KeptSound
  <1>6. /\ Cardinality(more) <= 1
        /\ room' = [room EXCEPT !.status = "in_progress", !.revision = Next1,
                                !.step = now, !.actions = rows \union more]
    BY DEF RewindRoom
  <1>7. now \in 0..Len(Steps) /\ Sound(rows \union more, now)
    BY <1>4, <1>5, <1>6, AutomaticSound
  <1>8. rows \union more \subseteq Rows
    BY <1>7 DEF Sound
  <1> HIDE DEF more, now, rows
  <1>9. /\ room' \in RoomType /\ room'.id = room.id /\ room'.revision = room.revision + 1
        /\ room'.before = room.before
        /\ room'.step = now /\ room'.actions = rows \union more
    BY <1>2, <1>6, <1>7, <1>8 DEF RoomType, Next1
  <1>10. match' \in MATCH_STATUSES
    BY MatchTyped DEF RewindRoom, MATCH_STATUSES
  <1> QED BY <1>1, <1>7, <1>9, <1>10, WriteKeeps

LEMMA ResetKeeps ==
    ASSUME IInv, NEW s \in Staff, ResetRoom(s)
    PROVE  IInv'
  <1> s \in Clients
    BY DEF Clients
  <1>1. MutateRevision(s, "reset") /\ "reset" \in Ops \ {"idle"}
    BY DEF ResetRoom, Ops
  <1>2. room \in RoomType /\ Next1 \in 0..MaxRevision /\ Len(Steps) \in Nat
    BY <1>1, RoomFields, VetoAssumption DEF VetoAssumption
  <1>3. room' = [room EXCEPT !.status = "open", !.winner = 0, !.teamA = 0, !.step = 0,
                             !.ready = {}, !.actions = {}, !.revision = Next1]
    BY DEF ResetRoom
  <1>4. /\ room' \in RoomType /\ room'.id = room.id /\ room'.revision = room.revision + 1
        /\ room'.before = room.before
        /\ room'.actions = {} /\ room'.step = 0
    <2>1. 0 \in 0..Len(Steps) /\ {} \in SUBSET Slots /\ {} \in SUBSET Rows
      BY <1>2
    <2> QED BY <1>2, <1>3, <2>1 DEF RoomType, Next1
  <1>5. Sound(room.actions, room.step)'
    BY <1>4 DEF Sound
  <1>6. match' \in MATCH_STATUSES
    BY MatchTyped DEF ResetRoom, MATCH_STATUSES
  <1> QED BY <1>1, <1>4, <1>5, <1>6, WriteKeeps

LEMMA CancelKeeps ==
    ASSUME IInv, NEW s \in Staff, CancelRoom(s)
    PROVE  IInv'
  <1> s \in Clients
    BY DEF Clients
  <1>1. MutateRevision(s, "cancel") /\ "cancel" \in Ops \ {"idle"}
    BY DEF CancelRoom, Ops
  <1>2. /\ room \in RoomType /\ Next1 \in 0..MaxRevision /\ match \in MATCH_STATUSES
        /\ Sound(room.actions, room.step) /\ room.before \in MATCH_STATUSES
    BY <1>1, RoomFields
  <1>3. room' = [room EXCEPT !.status = "cancelled", !.revision = Next1]
    BY DEF CancelRoom
  <1>4. /\ room' \in RoomType /\ room'.id = room.id /\ room'.revision = room.revision + 1
        /\ room'.before = room.before /\ Sound(room.actions, room.step)'
    BY <1>2, <1>3 DEF RoomType, Next1
  <1>5. match' \in MATCH_STATUSES
    BY <1>2 DEF CancelRoom, RestoredStatus
  <1> QED BY <1>1, <1>4, <1>5, WriteKeeps

\* A room deleted, and a request refused.
LEMMA DropKeeps ==
    ASSUME IInv, NEW c \in Clients, (c \in Staff /\ DeleteRoom(c)) \/ Refused(c)
    PROVE  IInv'
  <1>1. /\ req' = [req EXCEPT ![c] = Idle] /\ match' = match
        /\ \/ room' = room
           \/ room.status # "none" /\ room' = [NoRoom EXCEPT !.id = room.id]
    BY DEF DeleteRoom, Refused
  <1>2. room \in RoomType /\ match \in MATCH_STATUSES /\ Sound(room.actions, room.step)
    BY DEF IInv, TypeAll
  <1>3. CASE room' = room
    <2>1. /\ \A d \in Clients : Passed(d)' /\ RevisionNames(d)'
          /\ req' = [d \in Clients |-> req'[d]]
          /\ \A d \in Clients : req'[d].op \in Ops /\ req'[d].saw \in RoomType
      BY <1>1, <1>3, RequestsKept
    <2>2. TypeAll'
      BY <1>1, <1>2, <1>3, <2>1 DEF TypeAll, IInv
    <2> QED BY <1>2, <1>3, <2>1, <2>2 DEF IInv
  <1>4. CASE room.status # "none" /\ room' = [NoRoom EXCEPT !.id = room.id]
    <2>1. /\ room' \in RoomType /\ room'.id = room.id /\ room'.status = "none"
          /\ room'.actions = {} /\ room'.step = 0
      <3>1. 0 \in 0..Len(Steps) /\ 0 \in 0..MaxRevision
        BY VetoAssumption DEF VetoAssumption
      <3> QED BY <1>2, <1>4, <3>1 DEF NoRoom, RoomType
    <2>2. /\ \A d \in Clients : Passed(d)' /\ RevisionNames(d)'
          /\ req' = [d \in Clients |-> req'[d]]
          /\ \A d \in Clients : req'[d].op \in Ops /\ req'[d].saw \in RoomType
      BY <1>1, <1>4, <2>1, RequestsKept
    <2>3. TypeAll'
      BY <1>1, <1>2, <2>1, <2>2 DEF TypeAll
    <2>4. Sound(room.actions, room.step)'
      BY <2>1 DEF Sound
    <2> QED BY <2>2, <2>3, <2>4 DEF IInv
  <1> QED BY <1>1, <1>3, <1>4

\* What the reads let through is what Passed says.
LEMMA ReadPasses ==
    ASSUME IInv, NEW c \in Clients,
           NEW q \in TeamRequests(c, room)
                       \union (IF c \in Staff THEN StaffRequests(room) ELSE {}),
           req' = [req EXCEPT ![c] = [op |-> q.op, arg |-> q.arg, saw |-> room]]
    PROVE  Passed(c)' /\ q.op \in Ops
  <1>1. req'[c] = [op |-> q.op, arg |-> q.arg, saw |-> room]
    BY DEF IInv, TypeAll
  <1>2. CASE q \in TeamRequests(c, room)
    <2>1. \/ /\ q.op = "ready" /\ q.arg \in Slots \X BOOLEAN
          \/ /\ q.op \in {"toss", "choose"} /\ q.arg \in Slots
             /\ room.status = "toss_pending"
          \/ /\ q.op = "act" /\ room.status = "in_progress" /\ room.step < Len(Steps)
             /\ ActsFor(c, room, TurnSlot(room, Steps[room.step + 1]))
             /\ q.arg \in MapsFor(room, Steps[room.step + 1])
      BY <1>2 DEF TeamRequests
    <2> QED BY <1>1, <2>1 DEF Passed, Ops, ActsFor, TurnSlot, MapsFor, Used
  <1>3. CASE c \in Staff /\ q \in StaffRequests(room)
    <2>1. \/ q.op \in {"open", "reset", "cancel"}
          \/ q.op = "start" /\ StartStatus(room) # "refused"
          \/ q.op \in {"assign", "toss"} /\ q.arg \in Slots
          \/ q.op = "rewind" /\ q.arg \in 0..room.step
          \/ q.op = "delete" /\ room.status \in DELETABLE_ROOM_STATUSES
      BY <1>3 DEF StaffRequests
    <2> QED BY <1>1, <1>3, <2>1 DEF Passed, Ops, StartStatus
  <1> QED BY <1>2, <1>3

LEMMA ReadKeeps ==
    ASSUME IInv, NEW c \in Clients, Reads(c)
    PROVE  IInv'
  <1>1. PICK q \in TeamRequests(c, room)
                       \union (IF c \in Staff THEN StaffRequests(room) ELSE {}) :
           req' = [req EXCEPT ![c] = [op |-> q.op, arg |-> q.arg, saw |-> room]]
    BY DEF Reads
  <1>2. Passed(c)' /\ q.op \in Ops
    BY <1>1, ReadPasses
  <1>3. room' = room /\ match' = match
    BY DEF Reads
  <1>4. room \in RoomType /\ room.id \in Nat /\ room.revision \in Nat
    BY DEF IInv, TypeAll, RoomType
  <1>5. req = [d \in Clients |-> req[d]]
    BY DEF IInv, TypeAll
  <1>6. req' = [d \in Clients |->
                 IF d = c THEN [op |-> q.op, arg |-> q.arg, saw |-> room] ELSE req[d]]
    BY <1>1, <1>5
  <1>7. ASSUME NEW d \in Clients
        PROVE  /\ Passed(d)' /\ RevisionNames(d)'
               /\ req'[d].op \in Ops /\ req'[d].saw \in RoomType
    <2>1. CASE d = c
      <3>1. req'[d].saw = room /\ req'[d].op = q.op
        BY <1>6, <2>1
      <3>2. RevisionNames(d)'
        BY <1>3, <1>4, <3>1 DEF RevisionNames
      <3> QED BY <1>2, <1>4, <2>1, <3>1, <3>2
    <2>2. CASE d # c
      <3>1. req'[d] = req[d]
        BY <1>6, <2>2
      <3>2. Passed(d) /\ RevisionNames(d) /\ req[d].op \in Ops /\ req[d].saw \in RoomType
        BY DEF IInv, TypeAll
      <3>3. Passed(d)'
        BY <3>1, <3>2 DEF Passed, StartStatus, ActsFor, TurnSlot, MapsFor, Used
      <3>4. RevisionNames(d)'
        BY <1>3, <3>1, <3>2 DEF RevisionNames
      <3> QED BY <3>1, <3>2, <3>3, <3>4
    <2> QED BY <2>1, <2>2
  <1>8. TypeAll'
    BY <1>3, <1>6, <1>7 DEF IInv, TypeAll
  <1> QED BY <1>3, <1>7, <1>8 DEF IInv

\* A new room has a new id, so no request under way can be about it.
LEMMA RoomMadeKeeps ==
    ASSUME IInv, CreateRoom \/ EnsureMatchVetoRoom
    PROVE  IInv'
  <1>1. PICK status \in {"draft", "open"} : MakesRoom(status)
    BY DEF CreateRoom, EnsureMatchVetoRoom
  <1>2. PICK o \in OrderMethods, t \in TossMethods, m \in ControlModes :
          room' = [NoRoom EXCEPT !.id = room.id + 1, !.status = status, !.order = o,
                                 !.toss = t, !.control = m, !.before = match]
    BY <1>1 DEF MakesRoom
  <1>3. /\ room.id < MaxRooms /\ match' = match /\ req' = req
    BY <1>1 DEF MakesRoom
  <1>4. /\ room.id \in Nat /\ match \in MATCH_STATUSES
        /\ \A c \in Clients : req[c].saw \in RoomType
    BY DEF IInv, TypeAll, RoomType
  <1>5. /\ MaxRooms \in Nat /\ 0 \in 0..MaxRevision /\ 0 \in 0..Len(Steps)
    BY VetoAssumption DEF VetoAssumption
  <1>6. /\ room' \in RoomType /\ room'.id = room.id + 1 /\ room'.before = match
        /\ room'.actions = {} /\ room'.step = 0
    <2>1. room.id + 1 \in 0..MaxRooms /\ match \in MATCH_STATUSES \union {"none"}
      BY <1>3, <1>4, <1>5
    <2>2. room' = [status |-> status, id |-> room.id + 1, revision |-> 0, order |-> o,
                   toss |-> t, control |-> m, before |-> match, teamA |-> 0, winner |-> 0,
                   ready |-> {}, step |-> 0, actions |-> {}]
      BY <1>2 DEF NoRoom
    <2>3. room' \in RoomType
      <3> HIDE DEF MATCH_STATUSES
      <3> QED BY <1>5, <2>1, <2>2 DEF RoomType
    <2> QED BY <2>2, <2>3
  <1>7. \A c \in Clients : Passed(c)' /\ RevisionNames(c)'
    <2> SUFFICES ASSUME NEW c \in Clients PROVE Passed(c)' /\ RevisionNames(c)'
      OBVIOUS
    <2>1. Passed(c) /\ RevisionNames(c) /\ req[c].saw.id \in Nat
      BY <1>4 DEF IInv, RoomType
    <2>2. Passed(c)'
      BY <1>3, <2>1 DEF Passed, StartStatus, ActsFor, TurnSlot, MapsFor, Used
    <2>3. RevisionNames(c)'
      BY <1>3, <1>4, <1>6, <2>1 DEF RevisionNames
    <2> QED BY <2>2, <2>3
  <1>8. TypeAll'
    BY <1>3, <1>4, <1>6 DEF IInv, TypeAll
  <1>9. Sound(room.actions, room.step)'
    BY <1>6 DEF Sound
  <1> QED BY <1>7, <1>8, <1>9 DEF IInv

\* What the Challonge syncs hold of the match.
SeenType ==
    /\ seen = [x \in Syncs |-> seen[x]]
    /\ \A x \in Syncs : seen[x] \in MATCH_STATUSES \union {"none"}

\* Whoever writes the match past the room writes one of its statuses, and leaves
\* the room and the requests alone.
LEMMA BesideWrites ==
    ASSUME match \in MATCH_STATUSES, SeenType, Beside
    PROVE  room' = room /\ req' = req /\ match' \in MATCH_STATUSES /\ SeenType'
  <1>1. CASE UpdateMatch
    BY <1>1, VetoAssumption DEF UpdateMatch, VetoAssumption, SeenType
  <1>2. ASSUME NEW x \in Syncs, SyncReads(x)
        PROVE  room' = room /\ req' = req /\ match' \in MATCH_STATUSES /\ SeenType'
    BY <1>2 DEF SyncReads, SeenType
  <1>3. ASSUME NEW x \in Syncs, SyncWrites(x)
        PROVE  room' = room /\ req' = req /\ match' \in MATCH_STATUSES /\ SeenType'
    <2>1. PICK upstream \in Upstream :
            match' = IF seen[x] \in LOCAL_OPERATIONAL_STATUSES /\ upstream # "completed"
                     THEN seen[x] ELSE upstream
      BY <1>3 DEF SyncWrites
    <2>2. match' \in MATCH_STATUSES
      BY <2>1, VetoAssumption
         DEF VetoAssumption, LOCAL_OPERATIONAL_STATUSES, MATCH_STATUSES, TERMINAL_MATCH_STATUSES
    <2> QED BY <1>3, <2>2 DEF SyncWrites, SeenType
  <1> QED BY <1>1, <1>2, <1>3 DEF Beside

\* So it keeps the invariant, as a stutter does.
LEMMA BesideKeeps ==
    ASSUME IInv, SeenType, Beside \/ UNCHANGED vars
    PROVE  IInv'
  <1>1. /\ room' = room /\ req' = req
        /\ match' \in MATCH_STATUSES
    BY BesideWrites DEF vars, IInv, TypeAll
  <1>2. TypeAll'
    BY <1>1 DEF IInv, TypeAll
  <1>3. ASSUME NEW c \in Clients PROVE Passed(c)' /\ RevisionNames(c)'
    <2>1. Passed(c) /\ RevisionNames(c)
      BY DEF IInv
    <2> QED BY <1>1, <2>1 DEF Passed, RevisionNames, StartStatus, ActsFor, TurnSlot, MapsFor, Used
  <1> QED BY <1>1, <1>2, <1>3 DEF IInv

LEMMA NextIInv == IInv /\ SeenType /\ [Next]_vars => IInv'
  <1> SUFFICES ASSUME IInv, SeenType, [Next]_vars PROVE IInv'
    OBVIOUS
  <1>1. CASE CreateRoom \/ EnsureMatchVetoRoom
    BY <1>1, RoomMadeKeeps
  <1>2. CASE Beside \/ UNCHANGED vars
    BY <1>2, BesideKeeps
  <1>3. ASSUME NEW c \in Clients,
               Reads(c) \/ ReadyRoom(c) \/ TossRoom(c) \/ ChooseTeamA(c)
                 \/ SubmitAction(c) \/ Refused(c)
        PROVE  IInv'
    BY <1>3, ReadKeeps, ReadyKeeps, SlotKeeps, SubmitKeeps, DropKeeps
  <1>4. ASSUME NEW s \in Staff,
               OpenRoom(s) \/ StartRoom(s) \/ AssignTeamA(s) \/ RewindRoom(s)
                 \/ ResetRoom(s) \/ CancelRoom(s) \/ DeleteRoom(s)
        PROVE  IInv'
    <2> s \in Clients
      BY DEF Clients
    <2> QED BY <1>4, OpenKeeps, StartKeeps, SlotKeeps, RewindKeeps, ResetKeeps, CancelKeeps,
               DropKeeps
  <1> QED BY <1>1, <1>2, <1>3, <1>4 DEF Next, Requests

\* No request touches what the syncs hold.
LEMMA NextSeen == IInv /\ SeenType /\ [Next]_vars => SeenType'
  <1> SUFFICES ASSUME IInv, SeenType, [Next]_vars PROVE SeenType'
    OBVIOUS
  <1>1. CASE Beside
    BY <1>1, BesideWrites DEF IInv, TypeAll
  <1>2. CASE Requests
    <2>1. seen' = seen
      BY <1>2 DEF Requests, CreateRoom, EnsureMatchVetoRoom, MakesRoom, Reads, ReadyRoom,
           TossRoom, ChooseTeamA, SubmitAction, Refused, OpenRoom, StartRoom, AssignTeamA,
           RewindRoom, ResetRoom, CancelRoom, DeleteRoom, MutateRevision
    <2> QED BY <2>1 DEF SeenType
  <1>3. CASE UNCHANGED vars
    BY <1>3 DEF vars, SeenType
  <1> QED BY <1>1, <1>2, <1>3 DEF Next

LEMMA InvariantHolds == Spec => [](IInv /\ SeenType)
  <1>1. Init => SeenType
    BY DEF Init, SeenType
  <1> QED BY <1>1, InitIInv, NextIInv, NextSeen, PTL DEF Spec

-----------------------------------------------------------------------------
(* The results.                                                            *)

\* The room, the match and every request stay of their types.
THEOREM TypesHold == Spec => []TypeOK
  <1>1. IInv /\ SeenType => TypeOK
    BY DEF IInv, TypeAll, SeenType, TypeOK
  <1> QED BY <1>1, InvariantHolds, PTL

\* A sound record is the preset carried out so far.
LEMMA SoundFollows ==
    ASSUME IInv
    PROVE  RecordFollowsSteps
  <1> DEFINE rows == room.actions
             n == room.step
  <1>1. Sound(rows, n) /\ n \in 0..Len(Steps) /\ Len(Steps) \in Nat
    BY VetoAssumption DEF IInv, TypeAll, RoomType, VetoAssumption
  <1>2. ASSUME NEW i \in 1..Len(Steps)
        PROVE  Cardinality({a \in rows : a.seq = i}) = (IF i <= n THEN 1 ELSE 0)
    <2>1. CASE i <= n
      <3>1. PICK a \in rows : a.seq = i
        BY <1>1, <2>1 DEF Sound
      <3>2. {b \in rows : b.seq = i} = {a}
        BY <1>1, <3>1 DEF Sound
      <3> QED BY <2>1, <3>2, FS_Singleton
    <2>2. CASE ~(i <= n)
      <3>1. {b \in rows : b.seq = i} = {}
        BY <1>1, <2>2 DEF Sound
      <3> QED BY <2>2, <3>1, FS_EmptySet
    <2> QED BY <2>1, <2>2
  <1>3. ASSUME NEW a \in rows, NEW b \in rows, a.kind = "side", b.kind \in PlayedKinds,
               Steps[a.seq].series = Steps[b.seq].series
        PROVE  a.map = b.map
    <2>1. PICK d \in rows : /\ d.kind \in PlayedKinds /\ d.map = a.map
                            /\ Steps[d.seq].series = Steps[a.seq].series
      BY <1>1, <1>3 DEF Sound
    <2>2. /\ b.seq \in DOMAIN Steps /\ d.seq \in DOMAIN Steps
          /\ Steps[b.seq].kind \in PlayedKinds /\ Steps[d.seq].kind \in PlayedKinds
      BY <1>1, <1>3, <2>1, StepTyped DEF Sound, Rows
    <2>3. b.seq = d.seq
      BY <1>3, <2>1, <2>2, VetoAssumption DEF VetoAssumption, ValidSteps, PlayedKinds
    <2> QED BY <1>1, <2>1, <2>3 DEF Sound
  <1> QED BY <1>1, <1>2, <1>3 DEF RecordFollowsSteps, Sound, PlayedKinds

\* The record of a room is its preset carried out so far, whichever requests
\* overlap, and in every sequence of rewinds and resets.
THEOREM RecordFollows == Spec => []RecordFollowsSteps
  BY SoundFollows, InvariantHolds, PTL

\* A captain acts only on a turn of their team, as the room is when it is written.
THEOREM TurnsAreKept == Spec => TurnsKept
  <1>1. ASSUME IInv, NEW c \in Slots, SubmitAction(c)
        PROVE  /\ room.status = "in_progress" /\ room.step < Len(Steps)
               /\ TurnSlot(room, Steps[room.step + 1]) = c
    <2>1. c \in Clients /\ c \notin Staff
      BY VetoAssumption DEF Clients, VetoAssumption
    <2>2. MutateRevision(c, "act") /\ "act" \in Ops \ {"idle"}
      BY <1>1 DEF SubmitAction, Ops
    <2>3. Lands(c, "act")
      BY <1>1, <2>1, <2>2, LandsOnWhatItSaw
    <2> QED BY <2>1, <2>2, <2>3 DEF Lands, Passed, MutateRevision, ActsFor
  <1>2. IInv => \A c \in Slots :
          SubmitAction(c) => /\ room.status = "in_progress"
                             /\ room.step < Len(Steps)
                             /\ TurnSlot(room, Steps[room.step + 1]) = c
    BY <1>1
  <1> QED BY <1>2, InvariantHolds, PTL DEF TurnsKept

-----------------------------------------------------------------------------
(* With one referee, no request leaves the match waiting.                  *)

LiveStatuses == {"open", "toss_pending", "in_progress"}

\* A deletion under way is of a room that nobody can bring back to life: captains
\* only move a live room, and the one referee is busy.
DeletesDead ==
    \A c \in Clients : req[c].op = "delete" /\ req[c].saw.id = room.id =>
        room.status \in DELETABLE_ROOM_STATUSES \union {"none"}

\* What a step may not do, of one that is not a sync or an edit by hand.
NotLeft == LeftWaiting' => LeftWaiting \/ room.before \in Waiting

\* A request that is answered keeps this, unless it is a captain's that takes a
\* room out of DELETABLE_ROOM_STATUSES.
LEMMA DeadKept ==
    ASSUME \A s, t \in Staff : s = t, IInv, DeletesDead,
           NEW c \in Clients, req' = [req EXCEPT ![c] = Idle], room'.id = room.id,
           room'.status \in {room.status, "none"} \/ c \in Staff \/ room.status \in LiveStatuses
    PROVE  DeletesDead'
  <1>1. req = [d \in Clients |-> req[d]]
    BY DEF IInv, TypeAll
  <1>2. ASSUME NEW d \in Clients, req'[d].op = "delete", req'[d].saw.id = room'.id
        PROVE  room'.status \in DELETABLE_ROOM_STATUSES \union {"none"}
    <2>1. d # c /\ req'[d] = req[d]
      BY <1>1, <1>2 DEF Idle
    <2>2. room.status \in DELETABLE_ROOM_STATUSES \union {"none"}
      BY <1>2, <2>1 DEF DeletesDead
    <2>3. d \in Staff
      BY <1>2, <2>1 DEF IInv, Passed
    <2>4. c \notin Staff
      BY <2>1, <2>3
    <2> QED BY <2>2, <2>4 DEF DELETABLE_ROOM_STATUSES, LiveStatuses
  <1> QED BY <1>2 DEF DeletesDead

LEMMA CaptainWaits ==
    ASSUME \A s, t \in Staff : s = t, IInv, DeletesDead,
           NEW c \in Clients, ReadyRoom(c) \/ TossRoom(c) \/ ChooseTeamA(c) \/ SubmitAction(c)
    PROVE  DeletesDead' /\ NotLeft
  <1>1. PICK op \in {"ready", "toss", "choose", "act"} :
           /\ MutateRevision(c, op) /\ op \in Ops \ {"idle"}
           /\ \/ op = "ready" /\ ReadyRoom(c)
              \/ op = "toss" /\ TossRoom(c)
              \/ op = "choose" /\ ChooseTeamA(c)
              \/ op = "act" /\ SubmitAction(c)
    BY DEF ReadyRoom, TossRoom, ChooseTeamA, SubmitAction, Ops
  <1>2. room \in RoomType /\ Lands(c, op)
    BY <1>1, RoomFields, LandsOnWhatItSaw
  <1>3. room'.id = room.id /\ req' = [req EXCEPT ![c] = Idle]
    BY <1>1, <1>2
       DEF ReadyRoom, TossRoom, ChooseTeamA, SubmitAction, RoomType, MutateRevision
  <1>4. room'.status = room.status \/ room.status \in LiveStatuses
    BY <1>1, <1>2
       DEF ReadyRoom, TossRoom, Lands, Passed, MutateRevision, RoomType, LiveStatuses
  <1>5. DeletesDead'
    BY <1>3, <1>4, DeadKept
  <1>6. NotLeft
    <2>1. CASE op \in {"ready", "toss"}
      <3>1. room'.status = room.status /\ match' = match
        BY <1>1, <1>2, <2>1 DEF ReadyRoom, TossRoom, RoomType
      <3> QED BY <3>1 DEF NotLeft, LeftWaiting
    <2>2. CASE op = "choose"
      <3>1. room'.status = "in_progress"
        BY <1>1, <1>2, <2>2 DEF ChooseTeamA, RoomType
      <3> QED BY <3>1 DEF NotLeft, LeftWaiting
    <2>3. CASE op = "act"
      <3>1. \/ room'.status = "in_progress"
            \/ SyncMatchStatus({"veto_in_progress", "veto_starting_soon"}, "ready")
        BY <1>1, <1>2, <2>3 DEF SubmitAction, RoomType
      <3> QED BY <3>1 DEF SyncMatchStatus, Waiting, NotLeft, LeftWaiting
    <2> QED BY <1>1, <2>1, <2>2, <2>3
  <1> QED BY <1>5, <1>6

LEMMA RefereeWaits ==
    ASSUME \A s, t \in Staff : s = t, IInv, DeletesDead,
           NEW s \in Staff, OpenRoom(s) \/ StartRoom(s) \/ AssignTeamA(s) \/ RewindRoom(s)
                              \/ ResetRoom(s) \/ CancelRoom(s)
    PROVE  DeletesDead' /\ NotLeft
  <1> s \in Clients
    BY DEF Clients
  <1>1. PICK op \in {"open", "start", "assign", "rewind", "reset", "cancel"} :
           /\ MutateRevision(s, op) /\ op \in Ops \ {"idle"}
           /\ \/ op = "open" /\ OpenRoom(s)
              \/ op = "start" /\ StartRoom(s)
              \/ op = "assign" /\ AssignTeamA(s)
              \/ op = "rewind" /\ RewindRoom(s)
              \/ op = "reset" /\ ResetRoom(s)
              \/ op = "cancel" /\ CancelRoom(s)
    BY DEF OpenRoom, StartRoom, AssignTeamA, RewindRoom, ResetRoom, CancelRoom, Ops
  <1>2. room \in RoomType /\ Lands(s, op)
    BY <1>1, RoomFields, LandsOnWhatItSaw
  <1>3. room'.id = room.id /\ req' = [req EXCEPT ![s] = Idle]
    BY <1>1, <1>2
       DEF OpenRoom, StartRoom, AssignTeamA, RewindRoom, ResetRoom, CancelRoom, RoomType,
           MutateRevision
  <1>4. DeletesDead'
    BY <1>3, DeadKept
  <1>5. NotLeft
    <2>1. CASE op \in {"open", "rewind", "reset"}
      <3>1. room'.status \in LiveStatuses
        BY <1>1, <1>2, <2>1 DEF OpenRoom, RewindRoom, ResetRoom, RoomType, LiveStatuses
      <3> QED BY <3>1 DEF NotLeft, LeftWaiting, LiveStatuses
    <2>2. CASE op = "start"
      <3>1. StartStatus(room) \in LiveStatuses
        BY <1>1, <1>2, <2>2 DEF Lands, Passed, StartStatus, MutateRevision, LiveStatuses
      <3>2. room'.status \in LiveStatuses
        BY <1>1, <1>2, <2>2, <3>1 DEF StartRoom, Lands, RoomType
      <3> QED BY <3>2 DEF NotLeft, LeftWaiting, LiveStatuses
    <2>3. CASE op = "assign"
      <3>1. room'.status = room.status /\ match' = match
        BY <1>1, <1>2, <2>3 DEF AssignTeamA, RoomType
      <3> QED BY <3>1 DEF NotLeft, LeftWaiting
    <2>4. CASE op = "cancel"
      <3>1. match' = RestoredStatus
        BY <1>1, <2>4 DEF CancelRoom
      <3> QED BY <3>1 DEF RestoredStatus, Waiting, NotLeft, LeftWaiting
    <2> QED BY <1>1, <2>1, <2>2, <2>3, <2>4
  <1> QED BY <1>4, <1>5

\* A request that is read, dropped, or deletes the room.
LEMMA RequestWaits ==
    ASSUME \A s, t \in Staff : s = t, IInv, DeletesDead, NEW c \in Clients,
           Reads(c) \/ Refused(c) \/ (c \in Staff /\ DeleteRoom(c))
    PROVE  DeletesDead' /\ NotLeft
  <1>1. req = [d \in Clients |-> req[d]] /\ match' = match
    BY DEF IInv, TypeAll, Reads, Refused, DeleteRoom
  <1>2. CASE Reads(c)
    <2>1. PICK q \in TeamRequests(c, room)
                       \union (IF c \in Staff THEN StaffRequests(room) ELSE {}) :
            req' = [req EXCEPT ![c] = [op |-> q.op, arg |-> q.arg, saw |-> room]]
      BY <1>2 DEF Reads
    <2>2. Passed(c)' /\ room' = room /\ req'[c].saw = room
      BY <1>1, <1>2, <2>1, ReadPasses DEF Reads
    <2>3. ASSUME NEW d \in Clients, req'[d].op = "delete", req'[d].saw.id = room'.id
          PROVE  room'.status \in DELETABLE_ROOM_STATUSES \union {"none"}
      <3>1. CASE d = c
        BY <2>2, <2>3, <3>1 DEF Passed
      <3>2. CASE d # c
        BY <1>1, <2>1, <2>2, <2>3, <3>2 DEF DeletesDead
      <3> QED BY <3>1, <3>2
    <2> QED BY <1>1, <2>2, <2>3 DEF DeletesDead, NotLeft, LeftWaiting
  <1>3. CASE Refused(c)
    <2>1. room' = room /\ req' = [req EXCEPT ![c] = Idle]
      BY <1>3 DEF Refused
    <2> QED BY <1>1, <2>1, DeadKept DEF NotLeft, LeftWaiting
  <1>4. CASE c \in Staff /\ DeleteRoom(c)
    <2>1. /\ room'.status = "none" /\ room'.id = room.id
          /\ req' = [req EXCEPT ![c] = Idle] /\ room.status # "none"
      BY <1>4 DEF DeleteRoom, NoRoom
    <2>2. room.status \in DELETABLE_ROOM_STATUSES
      BY <1>4, <2>1 DEF DeletesDead, DeleteRoom
    <2>3. NotLeft
      BY <1>1, <2>2 DEF NotLeft, LeftWaiting, DELETABLE_ROOM_STATUSES
    <2> QED BY <2>1, <2>3, DeadKept
  <1> QED BY <1>2, <1>3, <1>4

\* A room made leaves the match as it was, and no deletion is of it.
LEMMA RoomMadeWaits ==
    ASSUME IInv, DeletesDead, CreateRoom \/ EnsureMatchVetoRoom
    PROVE  DeletesDead' /\ NotLeft
  <1>1. PICK status \in {"draft", "open"} : MakesRoom(status)
    BY DEF CreateRoom, EnsureMatchVetoRoom
  <1>2. /\ room.status = "none" /\ match' = match /\ req' = req /\ room'.id = room.id + 1
    BY <1>1 DEF MakesRoom, NoRoom
  <1>3. \A c \in Clients : req[c].op = "delete" => req[c].saw.id # room'.id
    <2>1. \A c \in Clients : RevisionNames(c) /\ req[c].saw.id \in Nat
      BY DEF IInv, TypeAll, RoomType
    <2>2. room.id \in Nat
      BY DEF IInv, TypeAll, RoomType
    <2> QED BY <1>2, <2>1, <2>2 DEF RevisionNames
  <1> QED BY <1>2, <1>3 DEF DeletesDead, NotLeft, LeftWaiting

\* Where one referee runs the room, no request of the captains or of that
\* referee leaves the match waiting on a veto that is over: only the Challonge
\* sync, a status set by hand, or the status a room was made on does.
THEOREM NoMatchLeftWaiting ==
    ASSUME \A s, t \in Staff : s = t
    PROVE  Spec => MatchNotLeftWaiting
  <1>1. Init => DeletesDead
    BY DEF Init, DeletesDead, NoRoom, Idle
  <1>2. IInv /\ SeenType /\ DeletesDead /\ [Next]_vars =>
          /\ DeletesDead'
          /\ [LeftWaiting' => LeftWaiting \/ Beside \/ room.before \in Waiting]_vars
    <2> SUFFICES ASSUME IInv, SeenType, DeletesDead, [Next]_vars
                 PROVE  DeletesDead' /\ (NotLeft \/ Beside \/ UNCHANGED vars)
      BY DEF NotLeft
    <2>1. CASE CreateRoom \/ EnsureMatchVetoRoom
      BY <2>1, RoomMadeWaits
    <2>2. CASE Beside \/ UNCHANGED vars
      <3>1. room' = room /\ req' = req
        BY <2>2, BesideWrites DEF vars, IInv, TypeAll
      <3> QED BY <2>2, <3>1 DEF DeletesDead
    <2>3. ASSUME NEW c \in Clients,
                 Reads(c) \/ ReadyRoom(c) \/ TossRoom(c) \/ ChooseTeamA(c)
                   \/ SubmitAction(c) \/ Refused(c)
          PROVE  DeletesDead' /\ NotLeft
      BY <2>3, RequestWaits, CaptainWaits
    <2>4. ASSUME NEW s \in Staff,
                 OpenRoom(s) \/ StartRoom(s) \/ AssignTeamA(s) \/ RewindRoom(s)
                   \/ ResetRoom(s) \/ CancelRoom(s) \/ DeleteRoom(s)
          PROVE  DeletesDead' /\ NotLeft
      <3> s \in Clients
        BY DEF Clients
      <3> QED BY <2>4, RefereeWaits, RequestWaits
    <2> QED BY <2>1, <2>2, <2>3, <2>4 DEF Next, Requests
  <1> QED BY <1>1, <1>2, InvariantHolds, PTL DEF Spec, MatchNotLeftWaiting

=============================================================================
