------------------------ MODULE RosterInvitesProofs ------------------------
(***************************************************************************)
(* Theorems about RosterInvites, for any number of people and of           *)
(* registrations.                                                          *)
(***************************************************************************)
EXTENDS RosterInvites, TLAPS

RowsType == [People -> Status]
RegType  == [status: {"none", "approved", "pending", "waitlisted", "rejected"},
             linked: BOOLEAN, verdict: Verdicts, byHand: BOOLEAN, rows: RowsType]
AnsType  == [says: {"nothing", "accepted", "declined"}, over: SUBSET Regs,
             first: Regs \union {NoReg}, verdict: Verdicts]
DeskType == [task: {"idle", "nudge", "profile"}, who: People \union {Nobody},
             reg: Regs \union {NoReg}, seen: RowsType]

Settled(rows) == \A m \in People : rows[m] \in Accepted \union {"absent"}

\* A verdict of the program itself is earned.
Earned(g) == g.verdict = "verified" /\ ~g.byHand => Settled(g.rows)

\* A nudge that waits is for somebody.
NudgesNamed == desk.task = "nudge" => desk.who \in People

\* An open answer covers linked registrations.  Where it has read that the
\* roster will be settled, it still will be when it commits: the rows it updated
\* are locked, and nothing takes back what the others have accepted.
AnswersHold == \A m \in People : Answering(m) =>
    /\ \A r \in ans[m].over : reg[r].linked
    /\ ans[m].first \in ans[m].over \union {NoReg}
    /\ ans[m].first # NoReg /\ ans[m].verdict = "verified" =>
          /\ \A p \in People \ {m} : reg[ans[m].first].rows[p] \in Accepted \union {"absent"}
          /\ \/ reg[ans[m].first].rows[m] \in Accepted \union {"absent"}
             \/ reg[ans[m].first].rows[m] \in Unanswered /\ ans[m].says = "accepted"

IInv == TypeOK /\ NudgesNamed /\ VerifiedMeansAccepted /\ AnswersHold

-----------------------------------------------------------------------------
(* What the operators give.                                                *)

LEMMA VerdictGiven ==
    ASSUME NEW rows \in RowsType
    PROVE  Verdict(rows) \in Verdicts /\ (Verdict(rows) = "verified" => Settled(rows))
  BY DEF Verdict, Verdicts, Settled

LEMMA ApprovedGiven ==
    ASSUME NEW g \in RegType
    PROVE  /\ Approved(g) \in RegType
           /\ Approved(g).verdict = g.verdict /\ Approved(g).byHand = g.byHand
           /\ Approved(g).rows = g.rows /\ Approved(g).linked = g.linked
           /\ Approved(g).status # g.status => g.status = "pending"
  BY DEF Approved, RegType

LEMMA JudgedGiven ==
    ASSUME NEW g \in RegType, NEW v \in Verdicts, v = "verified" => Settled(g.rows)
    PROVE  /\ Judged(g, v) \in RegType /\ Earned(Judged(g, v))
           /\ Judged(g, v).rows = g.rows /\ Judged(g, v).linked = g.linked
           /\ Judged(g, v).status # g.status => g.status = "pending"
  <1> DEFINE h == [g EXCEPT !.verdict = v, !.byHand = FALSE]
  <1>1. /\ h \in RegType /\ h.verdict = v /\ h.byHand = FALSE /\ h.rows = g.rows
        /\ h.linked = g.linked /\ h.status = g.status
    BY DEF RegType
  <1>2. Judged(g, v) = Approved(h)
    BY DEF Judged
  <1> HIDE DEF h
  <1> QED BY <1>1, <1>2, ApprovedGiven DEF Earned

LEMMA RefreshedGiven ==
    ASSUME NEW g \in RegType, NEW rows \in RowsType
    PROVE  /\ Refreshed(g, rows) \in RegType /\ Earned(Refreshed(g, rows))
           /\ Refreshed(g, rows).rows = rows /\ Refreshed(g, rows).linked = g.linked
           /\ Refreshed(g, rows).status # g.status => g.status = "pending"
  <1> DEFINE h == [g EXCEPT !.rows = rows]
  <1>1. h \in RegType /\ h.rows = rows /\ h.linked = g.linked /\ h.status = g.status
    BY DEF RegType
  <1>2. Refreshed(g, rows) = Judged(h, Verdict(rows))
    BY DEF Refreshed
  <1> HIDE DEF h
  <1> QED BY <1>1, <1>2, VerdictGiven, JudgedGiven


LEMMA RowsGiven ==
    /\ NoRows \in RowsType
    /\ \A S \in SUBSET People : Fresh(S) \in RowsType
    /\ \A a, b \in Status : Merged(a, b) \in Status
    /\ \A a \in Status : Kept(a) \in Status /\ Seated(a) \in Status
    /\ \A a \in Status, held \in BOOLEAN : Expired(a, held) \in Status
    /\ Unanswered \subseteq Status /\ Accepted \subseteq Status
  BY DEF NoRows, Fresh, Merged, Kept, Seated, Expired, RowsType, Status, Accepted, Unanswered,
         NUDGEABLE_INVITE_STATUSES

\* A correction takes nobody's place away but by taking the person off.
LEMMA CorrectionsGiven ==
    ASSUME NEW rows \in RowsType, NEW new \in Corrections(rows)
    PROVE  /\ new \in RowsType
           /\ \A m \in People : rows[m] \in Accepted => new[m] \in Accepted \union {"absent"}
  <1> DEFINE now == [m \in People |-> Kept(rows[m])]
             on  == {m \in People : rows[m] # "absent"}
  <1>1. now \in RowsType /\ \A m \in People : rows[m] \in Accepted => now[m] \in Accepted
    BY RowsGiven DEF RowsType, Kept, Accepted
  <1>2. {"absent", "accepted"} \subseteq Status /\ "accepted" \in Accepted /\ "absent" \notin Accepted
    BY DEF Status, Accepted
  <1>3. \/ new = now
        \/ \E m \in on : new = [now EXCEPT ![m] = "absent"]
        \/ \E m \in People \ on : new = [now EXCEPT ![m] = "accepted"]
        \/ \E p \in on \X (People \ on) : new = [now EXCEPT ![p[1]] = "absent", ![p[2]] = now[p[1]]]
    BY DEF Corrections
  <1>4. on \subseteq People /\ \A m \in People \ on : rows[m] = "absent"
    OBVIOUS
  <1> HIDE DEF now, on
  <1>5. CASE new = now \/ \E m \in on : new = [now EXCEPT ![m] = "absent"]
    BY <1>1, <1>2, <1>4, <1>5 DEF RowsType
  <1>6. CASE \E m \in People \ on : new = [now EXCEPT ![m] = "accepted"]
    BY <1>1, <1>2, <1>4, <1>6 DEF RowsType
  <1>7. ASSUME NEW a \in on, NEW b \in People \ on,
               new = [now EXCEPT ![a] = "absent", ![b] = now[a]]
        PROVE  /\ new \in RowsType
               /\ \A m \in People : rows[m] \in Accepted => new[m] \in Accepted \union {"absent"}
    BY <1>1, <1>2, <1>4, <1>7 DEF RowsType
  <1> QED BY <1>3, <1>5, <1>6, <1>7

-----------------------------------------------------------------------------
(* The saved team and the desk.                                            *)

Typed == /\ saved \in RowsType /\ reg \in [Regs -> RegType]
         /\ ans \in [People -> AnsType] /\ desk \in DeskType /\ NudgesNamed

LEMMA TypedIsTypeOK == TypeOK /\ NudgesNamed <=> Typed
  BY DEF TypeOK, Typed, RowsType, RegType, AnsType, DeskType

LEMMA SavedStep == Typed /\ [Next]_vars => saved' \in RowsType
  <1> SUFFICES ASSUME Typed, [Next]_vars PROVE saved' \in RowsType
    OBVIOUS
  <1> USE DEF Typed
  <1>a. /\ \A m \in People : saved[m] \in Status
        /\ \A r \in Regs, m \in People : reg[r].rows[m] \in Status
        /\ {"pending", "lapsed", "accepted", "declined", "absent"} \subseteq Status
    BY DEF RowsType, RegType, Status, Unanswered, Accepted, NUDGEABLE_INVITE_STATUSES
  <1>1. ASSUME NEW S \in SUBSET People, CreateSavedTeam(S) PROVE saved' \in RowsType
    BY <1>1, RowsGiven DEF CreateSavedTeam
  <1>2. ASSUME NEW S \in SUBSET People, UpdateSavedTeam(S) PROVE saved' \in RowsType
    <2>1. \A m \in People : desk.seen[m] \in Status
      BY DEF DeskType, RowsType
    <2> QED BY <1>2, <1>a, <2>1 DEF UpdateSavedTeam, RowsType
  <1>3. CASE DeleteSavedTeam
    BY <1>3, RowsGiven DEF DeleteSavedTeam
  <1>4. CASE NudgeWrites
    BY <1>4, <1>a DEF NudgeWrites, NudgesNamed, RowsType
  <1>5. CASE Lapse
    BY <1>5, <1>a DEF Lapse, RowsType
  <1>6. CASE ExpireInvites
    <2>1. CASE UNCHANGED saved
      BY <2>1
    <2>2. CASE saved' = [m \in People |-> Expired(saved[m], Answering(m))]
      <3>1. \A m \in People : Expired(saved[m], Answering(m)) \in Status
        BY <1>a DEF Expired, Status, NUDGEABLE_INVITE_STATUSES
      <3> QED BY <2>2, <3>1 DEF RowsType
    <2> QED BY <1>6, <2>1, <2>2 DEF ExpireInvites
  <1>7. ASSUME NEW r \in Regs, SyncRegistration(r) PROVE saved' \in RowsType
    <2>1. \A m \in People : Merged(reg[r].rows[m], saved[m]) \in Status
      BY <1>a, RowsGiven
    <2> QED BY <1>7, <2>1 DEF SyncRegistration, RowsType
  <1>8. ASSUME NEW r \in Regs, CorrectRoster(r) PROVE saved' \in RowsType
    <2>1. PICK rows \in Corrections(reg[r].rows) :
             \/ UNCHANGED saved
             \/ saved' = [m \in People |->
                    IF rows[m] = "absent" THEN "absent"
                    ELSE IF saved[m] # "absent" THEN Kept(saved[m]) ELSE rows[m]]
      BY <1>8 DEF CorrectRoster
    <2>2. rows \in RowsType
      BY <2>1, CorrectionsGiven DEF RegType
    <2>3. \A m \in People : rows[m] \in Status /\ Kept(saved[m]) \in Status
      BY <1>a, <2>2, RowsGiven DEF RowsType
    <2> QED BY <1>a, <2>1, <2>3 DEF RowsType
  <1>9. ASSUME NEW r \in Regs, StaffApproves(r) PROVE saved' \in RowsType
    <2>1. \A m \in People : Seated(saved[m]) \in Status
      BY <1>a, RowsGiven
    <2>2. \/ saved' = saved
          \/ \E T \in SUBSET People :
               saved' = [m \in People |-> IF m \in T THEN Seated(saved[m]) ELSE saved[m]]
      BY <1>9 DEF StaffApproves
    <2> QED BY <1>a, <2>1, <2>2 DEF RowsType
  <1>10. ASSUME NEW m \in People, AnswerCommits(m) PROVE saved' \in RowsType
    <2>1. ans[m].says \in Status
      BY <1>10, <1>a DEF AnswerCommits, Answering, AnsType
    <2> QED BY <1>10, <2>1 DEF AnswerCommits, RowsType
  <1>11. CASE \/ ProfileReads \/ DropDesk
              \/ \E r \in Regs :
                   \/ \E S \in SUBSET People : RegisterTeam(r, S)
                   \/ \E to \in StaffTargets : StaffSetsStatus(r, to)
                   \/ \E v \in HandVerdicts : StaffVerifies(r, v)
              \/ \E m \in People :
                   \/ \E d \in {"accepted", "declined"} : AnswerOpens(m, d)
                   \/ AnswerFails(m) \/ NudgeReads(m)
              \/ UNCHANGED vars
    BY <1>11 DEF ProfileReads, DropDesk, RegisterTeam, StaffSetsStatus, StaffVerifies,
                 AnswerOpens, AnswerFails, NudgeReads, vars
  <1> QED BY <1>1, <1>2, <1>3, <1>4, <1>5, <1>6, <1>7, <1>8, <1>9, <1>10, <1>11
          DEF Next, StaffDecides

LEMMA DeskStep == Typed /\ [Next]_vars => desk' \in DeskType /\ NudgesNamed'
  <1> SUFFICES ASSUME Typed, [Next]_vars PROVE desk' \in DeskType /\ NudgesNamed'
    OBVIOUS
  <1> USE DEF Typed
  <1>a. Idle \in DeskType /\ Idle.task = "idle"
    BY RowsGiven DEF Idle, DeskType
  <1>1. CASE UNCHANGED desk
    BY <1>1 DEF NudgesNamed
  <1>2. CASE desk' = Idle
    BY <1>a, <1>2 DEF NudgesNamed
  <1>3. ASSUME NEW m \in People, NudgeReads(m) PROVE desk' \in DeskType /\ NudgesNamed'
    <2>1. PICK r \in Regs \union {NoReg} :
             desk' = [Idle EXCEPT !.task = "nudge", !.who = m, !.reg = r]
      BY <1>3 DEF NudgeReads, Related
    <2> QED BY <2>1, RowsGiven DEF Idle, DeskType, NudgesNamed
  <1>4. CASE ProfileReads
    BY <1>4 DEF ProfileReads, Idle, DeskType, NudgesNamed
  <1>5. \/ UNCHANGED desk \/ desk' = Idle \/ ProfileReads
        \/ \E m \in People : NudgeReads(m)
    BY DEF Next, CreateSavedTeam, UpdateSavedTeam, DeleteSavedTeam, NudgeWrites, DropDesk, Lapse,
           ExpireInvites, RegisterTeam, SyncRegistration, StaffDecides, CorrectRoster,
           StaffApproves, StaffSetsStatus, StaffVerifies, AnswerOpens, AnswerCommits,
           AnswerFails, vars
  <1> QED BY <1>1, <1>2, <1>3, <1>4, <1>5


-----------------------------------------------------------------------------
(* The registrations.                                                      *)

\* Rows b come after rows a of a registration: who has accepted keeps the place
\* or is off the roster; under an answer of m that covers it, a settled row stays
\* settled and m's own row waits for the answer.
RowsKept(r, a, b) ==
    /\ \A p \in People : a[p] \in Accepted => b[p] \in Accepted \union {"absent"}
    /\ \A m \in People : r \in ans[m].over /\ Answering(m) /\ ~AnswerCommits(m) =>
          /\ \A p \in People : a[p] = "absent" => b[p] \in Accepted \union {"absent"}
          /\ a[m] \in Unanswered => b[m] \in Unanswered \union Accepted \union {"absent"}

\* What a step makes of a registration.
RegStep(r) ==
    /\ reg'[r] \in RegType /\ Earned(reg'[r])
    /\ reg[r].linked => reg'[r].linked
    /\ RowsKept(r, reg[r].rows, reg'[r].rows)
    /\ \/ reg'[r].status = reg[r].status \/ reg[r].status \in {"none", "approved", "pending"}
       \/ StaffDecides(r)

LEMMA SameRows ==
    ASSUME NEW r \in Regs, NEW a \in RowsType
    PROVE  RowsKept(r, a, a)
  BY DEF RowsKept

LEMMA SameStep ==
    ASSUME Typed, NEW r \in Regs, Earned(reg[r]), reg'[r] = reg[r]
    PROVE  RegStep(r)
  <1>1. reg[r] \in RegType /\ reg[r].rows \in RowsType
    BY DEF Typed, RegType
  <1> QED BY <1>1, SameRows DEF RegStep

\* A step that writes rows and refreshes the verdict.
LEMMA RefreshedStep ==
    ASSUME Typed, NEW r \in Regs, NEW rows \in RowsType, RowsKept(r, reg[r].rows, rows),
           \/ reg'[r] = Refreshed(reg[r], rows)
           \/ reg'[r] = Refreshed([reg[r] EXCEPT !.linked = TRUE], rows)
    PROVE  RegStep(r)
  <1>1. reg[r] \in RegType
    BY DEF Typed
  <1>2. CASE reg'[r] = Refreshed(reg[r], rows)
    <2>1. reg[r].status \in {"none", "approved", "pending", "waitlisted", "rejected"}
      BY <1>1 DEF RegType
    <2> QED BY <1>1, <1>2, <2>1, RefreshedGiven DEF RegStep
  <1>3. CASE reg'[r] = Refreshed([reg[r] EXCEPT !.linked = TRUE], rows)
    <2> DEFINE g == [reg[r] EXCEPT !.linked = TRUE]
    <2>1. g \in RegType /\ g.linked /\ g.status = reg[r].status
      BY <1>1 DEF RegType
    <2>2. reg'[r] = Refreshed(g, rows)
      BY <1>3
    <2> HIDE DEF g
    <2> QED BY <1>1, <2>1, <2>2, RefreshedGiven DEF RegStep
  <1> QED BY <1>2, <1>3

LEMMA RegsStep ==
    ASSUME IInv, [Next]_vars
    PROVE  reg' \in [Regs -> RegType] /\ \A r \in Regs : RegStep(r)
  <1>t. Typed /\ \A r \in Regs : Earned(reg[r])
    BY TypedIsTypeOK DEF IInv, VerifiedMeansAccepted, Earned, Settled
  <1> USE DEF Typed
  <1>a. /\ \A r \in Regs : reg[r] \in RegType /\ reg[r].rows \in RowsType
        /\ \A r \in Regs, m \in People : reg[r].rows[m] \in Status
        /\ \A m \in People : saved[m] \in Status
        /\ {"pending", "lapsed", "accepted", "declined", "absent"} \subseteq Status
        /\ Unanswered = {"pending", "lapsed"} /\ Accepted = {"accepted", "seated"}
        /\ "pending" \in Unanswered /\ "accepted" \in Accepted
    BY <1>t DEF RowsType, RegType, Status, Unanswered, Accepted, NUDGEABLE_INVITE_STATUSES
  <1>b. ASSUME UNCHANGED reg
        PROVE  reg' \in [Regs -> RegType] /\ \A r \in Regs : RegStep(r)
    BY <1>t, <1>b, SameStep
  <1>c. ASSUME NEW s \in Regs, RegStep(s), reg' = [reg EXCEPT ![s] = reg'[s]]
        PROVE  reg' \in [Regs -> RegType] /\ \A r \in Regs : RegStep(r)
    <2>1. reg' \in [Regs -> RegType] /\ \A r \in Regs \ {s} : reg'[r] = reg[r]
      BY <1>t, <1>c DEF RegStep
    <2> QED BY <1>t, <1>c, <2>1, SameStep
  <1>1. ASSUME NEW s \in Regs, NEW S \in SUBSET People, RegisterTeam(s, S)
        PROVE  reg' \in [Regs -> RegType] /\ \A r \in Regs : RegStep(r)
    <2>1. PICK st \in OPEN_REGISTRATION_STATUSES :
             reg' = [reg EXCEPT ![s].status = st, ![s].rows = Fresh(S)]
      BY <1>1 DEF RegisterTeam
    <2>2. /\ reg[s].verdict = "pending" /\ ~reg[s].linked /\ reg[s].status = "none"
          /\ \A p \in People : reg[s].rows[p] = "absent"
      BY <1>1 DEF RegisterTeam, Unmade, NoRows
    <2>3. /\ reg'[s] \in RegType /\ reg'[s].verdict = "pending" /\ reg'[s].rows = Fresh(S)
      BY <1>a, <1>t, <2>1, <2>2, RowsGiven DEF RegType, OPEN_REGISTRATION_STATUSES
    <2>4. \A m \in People : Answering(m) => s \notin ans[m].over
      BY <2>2 DEF IInv, AnswersHold
    <2>5. RowsKept(s, reg[s].rows, reg'[s].rows)
      BY <1>a, <2>2, <2>4 DEF RowsKept
    <2>6. RegStep(s)
      BY <2>2, <2>3, <2>5 DEF RegStep, Earned
    <2>7. reg' = [reg EXCEPT ![s] = reg'[s]]
      BY <1>t, <2>1
    <2> QED BY <1>c, <2>6, <2>7
  <1>2. ASSUME NEW s \in Regs, SyncRegistration(s)
        PROVE  reg' \in [Regs -> RegType] /\ \A r \in Regs : RegStep(r)
    <2> DEFINE both == [m \in People |-> Merged(reg[s].rows[m], saved[m])]
    <2>1. both \in RowsType
      BY <1>a, RowsGiven DEF RowsType
    <2>2. RowsKept(s, reg[s].rows, both)
      BY <1>2, <1>a DEF RowsKept, Merged, SyncRegistration, TeamQuiet
    <2>3. reg' = [reg EXCEPT ![s] = Refreshed([reg[s] EXCEPT !.linked = TRUE], both)]
      BY <1>2 DEF SyncRegistration
    <2> HIDE DEF both
    <2>4. RegStep(s) /\ reg' = [reg EXCEPT ![s] = reg'[s]]
      BY <1>t, <2>1, <2>2, <2>3, RefreshedStep
    <2> QED BY <1>c, <2>4
  <1>3. ASSUME NEW s \in Regs, CorrectRoster(s)
        PROVE  reg' \in [Regs -> RegType] /\ \A r \in Regs : RegStep(r)
    <2>1. PICK rows \in Corrections(reg[s].rows) :
             reg' = [reg EXCEPT ![s] = Refreshed(reg[s], rows)]
      BY <1>3 DEF CorrectRoster
    <2>2. /\ rows \in RowsType
          /\ \A m \in People : reg[s].rows[m] \in Accepted => rows[m] \in Accepted \union {"absent"}
      BY <1>a, <2>1, CorrectionsGiven
    <2>3. RowsKept(s, reg[s].rows, rows)
      BY <1>3, <2>2 DEF RowsKept, CorrectRoster, Quiet
    <2>4. RegStep(s) /\ reg' = [reg EXCEPT ![s] = reg'[s]]
      BY <1>t, <2>1, <2>2, <2>3, RefreshedStep
    <2> QED BY <1>c, <2>4
  <1>4. ASSUME NEW s \in Regs, StaffApproves(s)
        PROVE  reg' \in [Regs -> RegType] /\ \A r \in Regs : RegStep(r)
    <2> DEFINE rows == [m \in People |-> Seated(reg[s].rows[m])]
    <2>1. rows \in RowsType
      BY <1>a, RowsGiven DEF RowsType
    <2>2. RowsKept(s, reg[s].rows, rows)
      BY <1>4, <1>a DEF RowsKept, StaffApproves, Quiet, Seated
    <2>3. reg' = [reg EXCEPT ![s] = [reg[s] EXCEPT !.status = "approved", !.rows = rows,
                                      !.verdict = Verdict(rows), !.byHand = FALSE]]
      BY <1>4 DEF StaffApproves
    <2>4. /\ reg'[s] \in RegType /\ reg'[s].rows = rows /\ reg'[s].verdict = Verdict(rows)
          /\ reg'[s].linked = reg[s].linked
      <3> HIDE DEF rows
      <3> QED BY <1>t, <1>a, <2>1, <2>3, VerdictGiven DEF RegType
    <2>5. StaffDecides(s)
      BY <1>4 DEF StaffDecides
    <2> HIDE DEF rows
    <2>6. Earned(reg'[s])
      BY <2>1, <2>4, VerdictGiven DEF Earned
    <2>7. RegStep(s) /\ reg' = [reg EXCEPT ![s] = reg'[s]]
      BY <1>t, <2>2, <2>3, <2>4, <2>5, <2>6 DEF RegStep
    <2> QED BY <1>c, <2>7
  <1>5. ASSUME NEW s \in Regs, NEW to \in StaffTargets, StaffSetsStatus(s, to)
        PROVE  reg' \in [Regs -> RegType] /\ \A r \in Regs : RegStep(r)
    <2>1. StaffDecides(s)
      BY <1>5 DEF StaffDecides
    <2>2. reg' = [reg EXCEPT ![s].status = to]
      BY <1>5 DEF StaffSetsStatus
    <2>3. /\ reg'[s] \in RegType /\ reg'[s].rows = reg[s].rows /\ reg'[s].verdict = reg[s].verdict
          /\ reg'[s].linked = reg[s].linked /\ reg'[s].byHand = reg[s].byHand
      BY <1>t, <1>a, <2>2, RosterAssumption DEF RegType
    <2>4. RegStep(s) /\ reg' = [reg EXCEPT ![s] = reg'[s]]
      BY <1>t, <1>a, <2>1, <2>2, <2>3, SameRows DEF RegStep, Earned
    <2> QED BY <1>c, <2>4
  <1>6. ASSUME NEW s \in Regs, NEW v \in HandVerdicts, StaffVerifies(s, v)
        PROVE  reg' \in [Regs -> RegType] /\ \A r \in Regs : RegStep(r)
    <2> DEFINE g == [reg[s] EXCEPT !.verdict = v, !.byHand = TRUE]
    <2>1. StaffDecides(s)
      BY <1>6 DEF StaffDecides
    <2>2. reg' = [reg EXCEPT ![s] = Approved(g)]
      BY <1>6 DEF StaffVerifies
    <2>3. g \in RegType /\ g.rows = reg[s].rows /\ g.byHand /\ g.linked = reg[s].linked
      BY <1>a, RosterAssumption DEF RegType, Verdicts
    <2> HIDE DEF g
    <2>4. RegStep(s) /\ reg' = [reg EXCEPT ![s] = reg'[s]]
      BY <1>t, <1>a, <2>1, <2>2, <2>3, SameRows, ApprovedGiven DEF RegStep, Earned
    <2> QED BY <1>c, <2>4
  <1>7. ASSUME NudgeWrites
        PROVE  reg' \in [Regs -> RegType] /\ \A r \in Regs : RegStep(r)
    <2>1. CASE UNCHANGED reg
      BY <1>b, <2>1
    <2>2. CASE ~UNCHANGED reg
      <3> DEFINE s == desk.reg
                 m == desk.who
                 rows == Reopened(reg[s].rows, m)
      <3>1. s \in Regs /\ m \in People /\ ~Answering(m)
        BY <1>t, <1>7, <2>2 DEF NudgeWrites, DeskType, NudgesNamed
      <3>2. rows \in RowsType
        BY <1>a, <3>1 DEF Reopened, RowsType
      <3>3. RowsKept(s, reg[s].rows, rows)
        <4>1. \A p \in People : reg[s].rows[p] \in Accepted \union {"absent"} =>
                 rows[p] = reg[s].rows[p]
          BY <1>a, <3>1 DEF Reopened, NUDGEABLE_INVITE_STATUSES, RowsType
        <4>2. \A p \in People \ {m} : rows[p] = reg[s].rows[p]
          BY <1>a, <3>1 DEF Reopened, RowsType
        <4> HIDE DEF rows
        <4> QED BY <3>1, <4>1, <4>2 DEF RowsKept
      <3>4. reg' = [reg EXCEPT ![s] = Refreshed(reg[s], rows)]
        BY <1>7, <2>2 DEF NudgeWrites
      <3> HIDE DEF s, rows
      <3>5. RegStep(s) /\ reg' = [reg EXCEPT ![s] = reg'[s]]
        BY <1>t, <3>1, <3>2, <3>3, <3>4, RefreshedStep
      <3> QED BY <1>c, <3>1, <3>5
    <2> QED BY <2>1, <2>2
  <1>8. ASSUME NEW S \in SUBSET People, UpdateSavedTeam(S)
        PROVE  reg' \in [Regs -> RegType] /\ \A r \in Regs : RegStep(r)
    <2>1. CASE UNCHANGED reg
      BY <1>b, <2>1
    <2>2. ASSUME NEW p \in People \ S, NEW q \in S,
                 \A r \in OpenRegistrations : reg[r].rows[q] = "absent",
                 reg' = [r \in Regs |-> IF r \in OpenRegistrations
                                        THEN Carried(reg[r], p, q) ELSE reg[r]]
          PROVE  reg' \in [Regs -> RegType] /\ \A r \in Regs : RegStep(r)
      <3>1. ASSUME NEW r \in Regs PROVE RegStep(r)
        <4>1. CASE reg'[r] = reg[r]
          BY <1>t, <4>1, SameStep
        <4>2. CASE reg'[r] # reg[r]
          <5> DEFINE rows == [reg[r].rows EXCEPT ![p] = "absent", ![q] = "pending"]
          <5>1. /\ r \in OpenRegistrations /\ reg[r].rows[p] \in NUDGEABLE_INVITE_STATUSES
                /\ reg'[r] = Refreshed(reg[r], rows)
            BY <2>2, <4>2 DEF Carried
          <5>2. rows \in RowsType
            BY <1>a DEF RowsType
          <5>3. RowsKept(r, reg[r].rows, rows)
            <6>1. \A m \in People : ~Answering(m)
              BY <1>8 DEF UpdateSavedTeam, TeamQuiet
            <6>2. /\ reg[r].rows[q] = "absent" /\ "absent" \notin Accepted
                  /\ reg[r].rows[p] \notin Accepted /\ p # q
              BY <1>a, <2>2, <5>1 DEF NUDGEABLE_INVITE_STATUSES
            <6>3. \A m \in People \ {p, q} : rows[m] = reg[r].rows[m]
              BY <1>a DEF RowsType
            <6> QED BY <6>1, <6>2, <6>3 DEF RowsKept
          <5> HIDE DEF rows
          <5> QED BY <1>t, <5>1, <5>2, <5>3, RefreshedStep
        <4> QED BY <4>1, <4>2
      <3>2. \A r \in Regs : reg'[r] \in RegType
        BY <3>1 DEF RegStep
      <3>3. reg' = [r \in Regs |-> reg'[r]]
        BY <2>2
      <3> QED BY <3>1, <3>2, <3>3
    <2> QED BY <1>8, <2>1, <2>2 DEF UpdateSavedTeam
  <1>9. ASSUME Lapse
        PROVE  reg' \in [Regs -> RegType] /\ \A r \in Regs : RegStep(r)
    <2>1. CASE UNCHANGED reg
      BY <1>b, <2>1
    <2>2. ASSUME NEW s \in Regs, NEW m \in People, reg[s].rows[m] = "pending",
                 reg' = [reg EXCEPT ![s].rows[m] = "lapsed"]
          PROVE  reg' \in [Regs -> RegType] /\ \A r \in Regs : RegStep(r)
      <3> DEFINE rows == [reg[s].rows EXCEPT ![m] = "lapsed"]
      <3>1. rows \in RowsType /\ rows[m] = "lapsed" /\ \A p \in People \ {m} : rows[p] = reg[s].rows[p]
        BY <1>a DEF RowsType
      <3>2. reg' = [reg EXCEPT ![s] = [reg[s] EXCEPT !.rows = rows]]
        BY <1>t, <1>a, <2>2 DEF RegType
      <3> HIDE DEF rows
      <3>3. /\ reg'[s] \in RegType /\ reg'[s].rows = rows /\ reg'[s].verdict = reg[s].verdict
            /\ reg'[s].linked = reg[s].linked /\ reg'[s].byHand = reg[s].byHand
            /\ reg'[s].status = reg[s].status
        BY <1>t, <1>a, <3>1, <3>2 DEF RegType
      <3>4. RowsKept(s, reg[s].rows, rows)
        BY <1>a, <2>2, <3>1 DEF RowsKept
      <3>5. ~Settled(reg[s].rows)
        BY <1>a, <2>2 DEF Settled
      <3>6. RegStep(s)
        BY <1>t, <3>3, <3>4, <3>5 DEF RegStep, Earned
      <3>7. reg' = [reg EXCEPT ![s] = reg'[s]]
        BY <1>t, <3>2
      <3> QED BY <1>c, <3>6, <3>7
    <2> QED BY <1>9, <2>1, <2>2 DEF Lapse
  <1>10. ASSUME ExpireInvites
         PROVE  reg' \in [Regs -> RegType] /\ \A r \in Regs : RegStep(r)
    <2>1. CASE UNCHANGED reg
      BY <1>b, <2>1
    <2>2. CASE reg' = [r \in Regs |-> [reg[r] EXCEPT !.rows =
                         [m \in People |-> Expired(@[m], r \in ans[m].over)]]]
      <3>1. ASSUME NEW r \in Regs PROVE RegStep(r)
        <4> DEFINE rows == [m \in People |-> Expired(reg[r].rows[m], r \in ans[m].over)]
        <4>1. \A m \in People : \/ rows[m] = reg[r].rows[m]
                                \/ /\ rows[m] = "expired" /\ reg[r].rows[m] = "lapsed"
                                   /\ r \notin ans[m].over
          BY DEF Expired
        <4>2. rows \in RowsType
          <5>1. \A m \in People : rows[m] \in Status
            BY <1>a, <4>1 DEF Status, NUDGEABLE_INVITE_STATUSES
          <5> QED BY <5>1 DEF RowsType
        <4>3. reg'[r] = [reg[r] EXCEPT !.rows = rows]
          BY <2>2
        <4> HIDE DEF rows
        <4>4. /\ reg'[r] \in RegType /\ reg'[r].rows = rows /\ reg'[r].verdict = reg[r].verdict
              /\ reg'[r].linked = reg[r].linked /\ reg'[r].byHand = reg[r].byHand
              /\ reg'[r].status = reg[r].status
          BY <1>a, <4>2, <4>3 DEF RegType
        <4>5. RowsKept(r, reg[r].rows, rows)
          BY <1>a, <4>1 DEF RowsKept
        <4>6. Settled(reg[r].rows) => Settled(rows)
          BY <1>a, <4>1 DEF Settled
        <4> QED BY <1>t, <4>4, <4>5, <4>6 DEF RegStep, Earned
      <3>2. \A r \in Regs : reg'[r] \in RegType
        BY <3>1 DEF RegStep
      <3>3. reg' = [r \in Regs |-> reg'[r]]
        BY <2>2
      <3> QED BY <3>1, <3>2, <3>3
    <2> QED BY <1>10, <2>1, <2>2 DEF ExpireInvites
  <1>11. ASSUME NEW m \in People, AnswerCommits(m)
         PROVE  reg' \in [Regs -> RegType] /\ \A r \in Regs : RegStep(r)
    <2> DEFINE after(r) == Answered(reg[r].rows, m, ans[m].says)
    <2>0. Answering(m) /\ ans[m] \in AnsType /\ ans[m].says \in {"accepted", "declined"}
      BY <1>t, <1>11 DEF AnswerCommits, Answering, AnsType
    <2>1. ASSUME NEW r \in Regs PROVE RegStep(r)
      <3>1. CASE r \notin ans[m].over
        <4>1. reg'[r] = reg[r]
          BY <1>11, <3>1 DEF AnswerCommits
        <4> QED BY <1>t, <4>1, SameStep
      <3>2. CASE r \in ans[m].over
        <4>1. /\ \A p \in People \ {m} : after(r)[p] = reg[r].rows[p]
              /\ reg[r].rows[m] \notin Unanswered => after(r)[m] = reg[r].rows[m]
              /\ reg[r].rows[m] \in Unanswered => after(r)[m] = ans[m].says
              /\ after(r) \in RowsType
          BY <1>a, <2>0 DEF Answered, RowsType
        <4>2. RowsKept(r, reg[r].rows, after(r))
          <5>1. "absent" \notin Unanswered
            BY <1>a
          <5>2. ASSUME NEW p \in People, reg[r].rows[p] \in Accepted \union {"absent"}
                PROVE  after(r)[p] = reg[r].rows[p]
            BY <1>a, <4>1, <5>2
          <5> HIDE DEF after
          <5> QED BY <1>11, <4>1, <5>2 DEF RowsKept
        <4>3. CASE r # ans[m].first
          <5>1. reg'[r] = Refreshed(reg[r], after(r))
            BY <1>11, <3>2, <4>3 DEF AnswerCommits
          <5> HIDE DEF after
          <5> QED BY <1>t, <4>1, <4>2, <5>1, RefreshedStep
        <4>4. CASE r = ans[m].first
          <5> DEFINE g == [reg[r] EXCEPT !.rows = after(r)]
          <5>1. reg'[r] = Judged(g, ans[m].verdict)
            BY <1>11, <3>2, <4>4 DEF AnswerCommits
          <5>2. /\ g \in RegType /\ g.rows = after(r) /\ g.linked = reg[r].linked
                /\ g.status = reg[r].status
            <6> HIDE DEF after
            <6> QED BY <1>a, <4>1 DEF RegType
          <5>3. ans[m].verdict = "verified" => Settled(after(r))
            <6>1. r # NoReg
              BY RosterAssumption
            <6>2. ASSUME ans[m].verdict = "verified", NEW p \in People
                  PROVE  after(r)[p] \in Accepted \union {"absent"}
              <7>1. /\ \A q \in People \ {m} : reg[r].rows[q] \in Accepted \union {"absent"}
                    /\ \/ reg[r].rows[m] \in Accepted \union {"absent"}
                       \/ reg[r].rows[m] \in Unanswered /\ ans[m].says = "accepted"
                BY <2>0, <4>4, <6>1, <6>2 DEF IInv, AnswersHold
              <7> HIDE DEF after
              <7>2. CASE p # m
                BY <4>1, <7>1, <7>2
              <7>3. CASE p = m
                BY <1>a, <4>1, <7>1, <7>3
              <7> QED BY <7>2, <7>3
            <6> QED BY <6>2 DEF Settled
          <5>4. ans[m].verdict \in Verdicts
            BY <2>0 DEF AnsType
          <5> HIDE DEF after, g
          <5>5. reg[r].status \in {"none", "approved", "pending", "waitlisted", "rejected"}
            BY <1>a DEF RegType
          <5> QED BY <4>2, <5>1, <5>2, <5>3, <5>4, <5>5, JudgedGiven DEF RegStep
        <4> QED BY <4>3, <4>4
      <3> QED BY <3>1, <3>2
    <2>2. \A r \in Regs : reg'[r] \in RegType
      BY <2>1 DEF RegStep
    <2>3. reg' = [r \in Regs |-> reg'[r]]
      BY <1>11 DEF AnswerCommits
    <2> QED BY <2>1, <2>2, <2>3
  <1>12. CASE \/ \E S \in SUBSET People : CreateSavedTeam(S)
              \/ DeleteSavedTeam \/ ProfileReads \/ DropDesk
              \/ \E m \in People :
                   \/ \E d \in {"accepted", "declined"} : AnswerOpens(m, d)
                   \/ AnswerFails(m) \/ NudgeReads(m)
              \/ UNCHANGED vars
    <2>1. UNCHANGED reg
      BY <1>12 DEF CreateSavedTeam, DeleteSavedTeam, ProfileReads, DropDesk, AnswerOpens,
                   AnswerFails, NudgeReads, vars
    <2> QED BY <1>b, <2>1
  <1> QED BY <1>1, <1>2, <1>3, <1>4, <1>5, <1>6, <1>7, <1>8, <1>9, <1>10, <1>11, <1>12
          DEF Next, StaffDecides


-----------------------------------------------------------------------------
(* The open answers.                                                       *)

\* An answer stays open as it was, ends, or has just been opened.
LEMMA AnsStep ==
    ASSUME Typed, [Next]_vars
    PROVE  /\ ans' \in [People -> AnsType]
           /\ \A m \in People :
                \/ ans'[m] = ans[m] /\ ~AnswerCommits(m)
                \/ ans'[m] = NoAnswer
                \/ \E d \in {"accepted", "declined"} : AnswerOpens(m, d)
  <1> USE DEF Typed
  <1>a. NoAnswer \in AnsType
    BY DEF NoAnswer, AnsType, Verdicts
  <1>1. CASE UNCHANGED ans
    <2>1. ASSUME NEW m \in People, AnswerCommits(m) PROVE ans'[m] = NoAnswer
      BY <2>1 DEF AnswerCommits
    <2> QED BY <1>1, <2>1
  <1>2. ASSUME NEW n \in People, AnswerCommits(n) \/ AnswerFails(n)
        PROVE  /\ ans' \in [People -> AnsType]
               /\ \A m \in People : \/ ans'[m] = ans[m] /\ ~AnswerCommits(m)
                                    \/ ans'[m] = NoAnswer
    <2>1. ans' = [ans EXCEPT ![n] = NoAnswer]
      BY <1>2 DEF AnswerCommits, AnswerFails
    <2>2. ASSUME NEW m \in People, AnswerCommits(m) PROVE ans'[m] = NoAnswer
      BY <2>2 DEF AnswerCommits
    <2> QED BY <1>a, <2>1, <2>2
  <1>3. ASSUME NEW n \in People, NEW d \in {"accepted", "declined"}, AnswerOpens(n, d)
        PROVE  /\ ans' \in [People -> AnsType]
               /\ \A m \in People : \/ ans'[m] = ans[m] /\ ~AnswerCommits(m)
                                    \/ ans'[m] = NoAnswer
                                    \/ AnswerOpens(m, d)
    <2>1. PICK f \in Regs \union {NoReg} :
            /\ f = NoReg \/ f \in OpenRegistrations
            /\ ans' = [ans EXCEPT ![n] =
                  [says |-> d, over |-> OpenRegistrations, first |-> f,
                   verdict |-> IF f = NoReg THEN "pending"
                               ELSE Verdict(Answered(reg[f].rows, n, d))]]
      BY <1>3 DEF AnswerOpens, OpenRegistrations
    <2>2. OpenRegistrations \in SUBSET Regs
      BY DEF OpenRegistrations
    <2>3. f # NoReg => Verdict(Answered(reg[f].rows, n, d)) \in Verdicts
      BY DEF Verdict, Verdicts
    <2>4. ans'[n] \in AnsType
      <3> DEFINE v == IF f = NoReg THEN "pending" ELSE Verdict(Answered(reg[f].rows, n, d))
      <3>1. v \in Verdicts
        BY <2>3 DEF Verdicts
      <3>2. ans'[n] = [says |-> d, over |-> OpenRegistrations, first |-> f, verdict |-> v]
        BY <2>1
      <3> HIDE DEF v
      <3> QED BY <2>2, <3>1, <3>2 DEF AnsType
    <2>5. ans' = [ans EXCEPT ![n] = ans'[n]]
      BY <2>1
    <2>6. ASSUME NEW m \in People, AnswerCommits(m) PROVE ans'[m] = NoAnswer
      BY <2>6 DEF AnswerCommits
    <2> QED BY <1>3, <2>4, <2>5, <2>6
  <1>4. \/ UNCHANGED ans
        \/ \E n \in People :
             \/ AnswerCommits(n) \/ AnswerFails(n)
             \/ \E d \in {"accepted", "declined"} : AnswerOpens(n, d)
    BY DEF Next, CreateSavedTeam, UpdateSavedTeam, DeleteSavedTeam, ProfileReads, NudgeWrites,
           DropDesk, Lapse, ExpireInvites, RegisterTeam, SyncRegistration, StaffDecides,
           CorrectRoster, StaffApproves, StaffSetsStatus, StaffVerifies, NudgeReads, vars
  <1> QED BY <1>1, <1>2, <1>3, <1>4

LEMMA AnswersHoldStep == IInv /\ [Next]_vars => AnswersHold'
  <1> SUFFICES ASSUME IInv, [Next]_vars, NEW m \in People, Answering(m)'
               PROVE  /\ \A r \in ans'[m].over : reg'[r].linked
                      /\ ans'[m].first \in ans'[m].over \union {NoReg}
                      /\ ans'[m].first # NoReg /\ ans'[m].verdict = "verified" =>
                            /\ \A p \in People \ {m} :
                                 reg'[ans'[m].first].rows[p] \in Accepted \union {"absent"}
                            /\ \/ reg'[ans'[m].first].rows[m] \in Accepted \union {"absent"}
                               \/ /\ reg'[ans'[m].first].rows[m] \in Unanswered
                                  /\ ans'[m].says = "accepted"
    BY DEF AnswersHold
  <1>t. Typed
    BY TypedIsTypeOK DEF IInv
  <1>s. \A r \in Regs : RegStep(r)
    BY RegsStep
  <1>1. CASE ans'[m] = ans[m] /\ ~AnswerCommits(m)
    <2>1. Answering(m) /\ ans[m] \in AnsType
      BY <1>1, <1>t DEF Answering, Typed
    <2>2. \A r \in ans[m].over : r \in Regs /\ reg[r].linked /\ reg'[r].linked
      BY <1>s, <2>1 DEF IInv, AnswersHold, RegStep, AnsType
    <2>3. ans[m].first \in ans[m].over \union {NoReg}
      BY <2>1 DEF IInv, AnswersHold
    <2>4. ASSUME ans[m].first # NoReg, ans[m].verdict = "verified"
          PROVE  /\ \A p \in People \ {m} :
                       reg'[ans[m].first].rows[p] \in Accepted \union {"absent"}
                 /\ \/ reg'[ans[m].first].rows[m] \in Accepted \union {"absent"}
                    \/ reg'[ans[m].first].rows[m] \in Unanswered /\ ans[m].says = "accepted"
      <3>1. ans[m].first \in Regs /\ ans[m].first \in ans[m].over
        BY <2>2, <2>3, <2>4
      <3>2. RowsKept(ans[m].first, reg[ans[m].first].rows, reg'[ans[m].first].rows)
        BY <1>s, <3>1 DEF RegStep
      <3>3. /\ \A p \in People \ {m} : reg[ans[m].first].rows[p] \in Accepted \union {"absent"}
            /\ \/ reg[ans[m].first].rows[m] \in Accepted \union {"absent"}
               \/ reg[ans[m].first].rows[m] \in Unanswered /\ ans[m].says = "accepted"
        BY <2>1, <2>4 DEF IInv, AnswersHold
      <3> QED BY <1>1, <2>1, <3>1, <3>2, <3>3 DEF RowsKept
    <2> QED BY <1>1, <2>2, <2>3, <2>4
  <1>2. CASE ans'[m] = NoAnswer
    BY <1>2 DEF Answering, NoAnswer
  <1>3. ASSUME NEW d \in {"accepted", "declined"}, AnswerOpens(m, d)
        PROVE  /\ \A r \in ans'[m].over : reg'[r].linked
               /\ ans'[m].first \in ans'[m].over \union {NoReg}
               /\ ans'[m].first # NoReg /\ ans'[m].verdict = "verified" =>
                     /\ \A p \in People \ {m} :
                          reg'[ans'[m].first].rows[p] \in Accepted \union {"absent"}
                     /\ \/ reg'[ans'[m].first].rows[m] \in Accepted \union {"absent"}
                        \/ /\ reg'[ans'[m].first].rows[m] \in Unanswered
                           /\ ans'[m].says = "accepted"
    <2>1. PICK f : /\ f \in IF OpenRegistrations = {} THEN {NoReg} ELSE OpenRegistrations
                   /\ ans'[m] = [says |-> d, over |-> OpenRegistrations, first |-> f,
                                 verdict |-> IF f = NoReg THEN "pending"
                                             ELSE Verdict(Answered(reg[f].rows, m, d))]
                   /\ UNCHANGED reg
      BY <1>3, <1>t DEF AnswerOpens, Typed
    <2>2. /\ ans'[m].over = OpenRegistrations /\ ans'[m].first = f /\ ans'[m].says = d
          /\ f # NoReg => ans'[m].verdict = Verdict(Answered(reg[f].rows, m, d))
          /\ \A r \in OpenRegistrations : r \in Regs /\ reg[r].linked
      BY <2>1 DEF OpenRegistrations
    <2>3. ASSUME f # NoReg, ans'[m].verdict = "verified"
          PROVE  /\ \A p \in People \ {m} : reg[f].rows[p] \in Accepted \union {"absent"}
                 /\ \/ reg[f].rows[m] \in Accepted \union {"absent"}
                    \/ reg[f].rows[m] \in Unanswered /\ d = "accepted"
      <3> DEFINE rows == Answered(reg[f].rows, m, d)
      <3>1. f \in Regs /\ reg[f].rows \in RowsType
        BY <1>t, <2>1, <2>2, <2>3 DEF Typed, RegType
      <3>2. /\ rows \in RowsType
            /\ \A p \in People \ {m} : rows[p] = reg[f].rows[p]
            /\ reg[f].rows[m] \in Unanswered => rows[m] = d
            /\ reg[f].rows[m] \notin Unanswered => rows[m] = reg[f].rows[m]
        BY <3>1 DEF Answered, RowsType, Status, Accepted, Unanswered, NUDGEABLE_INVITE_STATUSES
      <3>3. Verdict(rows) = "verified"
        BY <2>2, <2>3
      <3> HIDE DEF rows
      <3>4. \A p \in People : rows[p] \in Accepted \union {"absent"}
        BY <3>2, <3>3, VerdictGiven DEF Settled
      <3>5. "declined" \notin Accepted \union {"absent"}
        BY DEF Accepted
      <3> QED BY <3>2, <3>4, <3>5
    <2> QED BY <2>1, <2>2, <2>3
  <1> QED BY <1>t, <1>1, <1>2, <1>3, AnsStep

-----------------------------------------------------------------------------
(* The theorems.                                                           *)

LEMMA InitInv == Init => IInv
  <1> SUFFICES ASSUME Init PROVE IInv
    OBVIOUS
  <1>1. TypeOK
    BY DEF Init, TypeOK, NoRows, Unmade, NoAnswer, Idle, Verdicts, Status
  <1>2. NudgesNamed /\ VerifiedMeansAccepted /\ AnswersHold
    BY DEF Init, NudgesNamed, VerifiedMeansAccepted, AnswersHold, Answering, Idle, Unmade, NoAnswer
  <1> QED BY <1>1, <1>2 DEF IInv

LEMMA InvStep == IInv /\ [Next]_vars => IInv'
  <1> SUFFICES ASSUME IInv, [Next]_vars PROVE IInv'
    OBVIOUS
  <1>t. Typed
    BY TypedIsTypeOK DEF IInv
  <1>1. Typed'
    BY <1>t, SavedStep, DeskStep, AnsStep, RegsStep DEF Typed
  <1>2. (TypeOK /\ NudgesNamed)'
    BY <1>1, TypedIsTypeOK, PTL
  <1>3. VerifiedMeansAccepted'
    <2>1. \A r \in Regs : Earned(reg'[r])
      BY RegsStep DEF RegStep
    <2> QED BY <2>1 DEF VerifiedMeansAccepted, Earned, Settled
  <1> QED BY <1>2, <1>3, AnswersHoldStep DEF IInv

LEMMA InvHolds == Spec => []IInv
  BY InitInv, InvStep, PTL DEF Spec

\* The rows, verdicts and requests keep their types, whoever writes them.
THEOREM TypesHold == Spec => []TypeOK
  <1>1. IInv => TypeOK
    BY DEF IInv
  <1> QED BY <1>1, InvHolds, PTL

\* A verdict of the program's own says verified only of a roster that has accepted,
\* although an answer carries a verdict read before the others' rows changed.
THEOREM VerifiedRosters == Spec => []VerifiedMeansAccepted
  <1>1. IInv => VerifiedMeansAccepted
    BY DEF IInv
  <1> QED BY <1>1, InvHolds, PTL

\* No nudge, edit, copy, sweep or late answer takes an accepted place back.
THEOREM SeatsKept == Spec => SeatKept
  <1> DEFINE A == \A r \in Regs, m \in People :
        reg[r].rows[m] \in Accepted => reg'[r].rows[m] \in Accepted \union {"absent"}
  <1>1. IInv /\ [Next]_vars => [A]_vars
    BY RegsStep DEF RegStep, RowsKept
  <1> QED BY <1>1, InvHolds, PTL DEF Spec, SeatKept

\* Only staff move a registration off the waitlist or out of a rejection.
THEOREM DecisionsKept == Spec => DecisionsStand
  <1> DEFINE A == \A r \in Regs :
        /\ reg[r].status \in {"waitlisted", "rejected"}
        /\ reg'[r].status # reg[r].status
        => StaffDecides(r)
  <1>1. IInv /\ [Next]_vars => [A]_vars
    BY RegsStep DEF RegStep
  <1> QED BY <1>1, InvHolds, PTL DEF Spec, DecisionsStand

=============================================================================
