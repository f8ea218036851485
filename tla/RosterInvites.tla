--------------------------- MODULE RosterInvites ---------------------------
(***************************************************************************)
(* The invitations of one saved team and of the registrations made from    *)
(* it: modules/teams/*.service.js, teams/registration-verification.js,     *)
(* admin/admin-roster.service.js, admin/admin-registration-status.service  *)
(* and the expiry in lib/data-hygiene.js.                                  *)
(* A person is invited on the saved team's row and on one row of every     *)
(* linked registration; they answer the first and the answer is copied.    *)
(* Answering is READ COMMITTED: between AnswerOpens and AnswerCommits the  *)
(* rows it updated are locked and invisible, and what it read of the other *)
(* rows grows old.  SERIALIZABLE transactions are one step, retried until  *)
(* no open answer holds a row they write.  Nudging and editing the profile *)
(* read before their transaction: the desk keeps what they read.           *)
(* The registrations are free or paid for: those the captain can no longer *)
(* submit again (submitting again is in TournamentEntry).                  *)
(***************************************************************************)
EXTENDS Integers, FiniteSets

CONSTANTS
    People,         \* the addresses that can be invited, the captain apart
    Regs,           \* the registrations the team can make
    NoReg,          \* no registration
    Nobody,         \* no person
    AutoApprove,    \* tournament.autoApproveRegistrations
    StaffTargets,   \* the statuses staff set, an approval apart
    HandVerdicts    \* the verdicts staff set by hand

ASSUME RosterAssumption ==
    /\ NoReg \notin Regs
    /\ Nobody \notin People
    /\ AutoApprove \in BOOLEAN
    /\ StaffTargets \subseteq {"pending", "waitlisted", "rejected"}
    /\ HandVerdicts \subseteq {"pending", "flagged", "verified"}

VARIABLES
    saved,     \* the saved team's row of each person
    reg,       \* the registrations with their rows
    ans,       \* the answers whose transaction is open
    desk       \* a request that has read and not yet written

vars == <<saved, reg, ans, desk>>

\* A row's invitation.  "lapsed" is pending past its deadline and not yet swept;
\* "seated" is accepted by staff, with no account on the row.
Unanswered == {"pending", "lapsed"}
Accepted   == {"accepted", "seated"}
NUDGEABLE_INVITE_STATUSES == Unanswered \union {"declined", "expired"}
Status     == NUDGEABLE_INVITE_STATUSES \union Accepted \union {"absent"}

OPEN_REGISTRATION_STATUSES == {"pending", "waitlisted"}

NoRows   == [m \in People |-> "absent"]
NoAnswer == [says |-> "nothing", over |-> {}, first |-> NoReg, verdict |-> "pending"]
Idle     == [task |-> "idle", who |-> Nobody, reg |-> NoReg, seen |-> NoRows]
Unmade   == [status |-> "none", linked |-> FALSE, verdict |-> "pending",
             byHand |-> FALSE, rows |-> NoRows]

Verdicts == {"pending", "flagged", "verified"}

TypeOK ==
    /\ saved \in [People -> Status]
    /\ reg \in [Regs ->
         [status: {"none", "approved", "pending", "waitlisted", "rejected"},
          linked: BOOLEAN, verdict: Verdicts, byHand: BOOLEAN,
          rows: [People -> Status]]]
    /\ ans \in [People ->
         [says: {"nothing", "accepted", "declined"}, over: SUBSET Regs,
          first: Regs \union {NoReg}, verdict: Verdicts]]
    /\ desk \in [task: {"idle", "nudge", "profile"}, who: People \union {Nobody},
                 reg: Regs \union {NoReg}, seen: [People -> Status]]

Init ==
    /\ saved = NoRows
    /\ reg = [r \in Regs |-> Unmade]
    /\ ans = [m \in People |-> NoAnswer]
    /\ desk = Idle

-----------------------------------------------------------------------------
(* The verdict on a roster.                                                *)

\* Mutant: the roster gets the word its rows use.
RowWordVerdict(rows) ==
    IF \E m \in People : rows[m] = "declined" THEN "declined"
    ELSE IF \A m \in People : rows[m] \in Accepted \union {"absent"}
         THEN "accepted" ELSE "pending"

\* Mutant: an invitation that ran out of time counts as settled.
ExpiredSettlesVerdict(rows) ==
    IF \E m \in People : rows[m] = "declined" THEN "flagged"
    ELSE IF \A m \in People : rows[m] \in Accepted \union {"absent", "expired"}
         THEN "verified" ELSE "pending"

Verdict(rows) ==
    IF \E m \in People : rows[m] = "declined" THEN "flagged"
    ELSE IF \A m \in People : rows[m] \in Accepted \union {"absent"}
         THEN "verified" ELSE "pending"

\* Mutant: any registration that is not yet approved is.
EagerApproved(g) ==
    IF AutoApprove /\ g.verdict = "verified" THEN [g EXCEPT !.status = "approved"] ELSE g

\* maybeAutoApproveRegistration, where the entry fee is paid or there is none.
Approved(g) ==
    IF AutoApprove /\ g.verdict = "verified" /\ g.status = "pending"
    THEN [g EXCEPT !.status = "approved"] ELSE g

Judged(g, verdict) == Approved([g EXCEPT !.verdict = verdict, !.byHand = FALSE])

\* refreshRegistrationVerificationStatus, on the rows the caller leaves.
Refreshed(g, rows) == Judged([g EXCEPT !.rows = rows], Verdict(rows))

Answering(m) == ans[m].says # "nothing"

\* No open answer holds a row of the registration, or any row of the team.
Quiet(r) == \A m \in People : r \notin ans[m].over
TeamQuiet == \A m \in People : ~Answering(m)

-----------------------------------------------------------------------------
(* The roster is written.                                                  *)

Fresh(S) == [m \in People |-> IF m \in S THEN "pending" ELSE "absent"]

\* createSavedTeam.
CreateSavedTeam(S) ==
    /\ saved = NoRows /\ \A r \in Regs : ~reg[r].linked
    /\ S # {}
    /\ saved' = Fresh(S)
    /\ UNCHANGED <<reg, ans, desk>>

\* deleteSavedTeam: only a team no registration is linked to.
DeleteSavedTeam ==
    /\ saved # NoRows /\ \A r \in Regs : ~reg[r].linked
    /\ TeamQuiet
    /\ saved' = NoRows
    /\ UNCHANGED <<reg, ans, desk>>

\* The registration is made; nobody has been asked yet.
RegisterTeam(r, S) ==
    /\ reg[r] = Unmade
    /\ S # {}
    /\ \E s \in OPEN_REGISTRATION_STATUSES :
         reg' = [reg EXCEPT ![r].status = s, ![r].rows = Fresh(S)]
    /\ UNCHANGED <<saved, ans, desk>>

\* What both copies say of a member when the registration's roster becomes the
\* team's: an answer on the registration, an answer kept on the team, or an
\* invitation, the running one if there is one.
Merged(mine, kept) ==
    CASE mine = "absent"                        -> "absent"
      [] mine \in Accepted \union {"declined"}  -> mine
      [] OTHER -> IF kept = "accepted" THEN "accepted" ELSE "pending"

\* syncSavedTeamFromRegistration: the rows of both copies are written anew.
SyncRegistration(r) ==
    /\ reg[r].status # "none" /\ ~reg[r].linked
    /\ TeamQuiet
    /\ LET both == [m \in People |-> Merged(reg[r].rows[m], saved[m])] IN
       /\ saved' = both
       /\ reg' = [reg EXCEPT ![r] = Refreshed([@ EXCEPT !.linked = TRUE], both)]
    /\ UNCHANGED <<ans, desk>>

-----------------------------------------------------------------------------
(* A member answers.                                                       *)

OpenRegistrations == {r \in Regs :
    reg[r].linked /\ reg[r].status \in OPEN_REGISTRATION_STATUSES}

Answered(rows, m, d) ==
    IF rows[m] \in Unanswered THEN [rows EXCEPT ![m] = d] ELSE rows

\* respondToInvitation up to its first look at a roster: its own rows are
\* updated, the other members' are seen as last committed.
AnswerOpens(m, d) ==
    /\ saved[m] = "pending" /\ ~Answering(m)
    /\ \E first \in IF OpenRegistrations = {} THEN {NoReg} ELSE OpenRegistrations :
         ans' = [ans EXCEPT ![m] =
                   [says |-> d, over |-> OpenRegistrations, first |-> first,
                    verdict |-> IF first = NoReg THEN "pending"
                                ELSE Verdict(Answered(reg[first].rows, m, d))]]
    /\ UNCHANGED <<saved, reg, desk>>

\* It commits.  The first registration gets the verdict read at the start; by
\* then its row is locked, and the others are looked at afterwards.
AnswerCommits(m) ==
    /\ Answering(m)
    /\ LET a == ans[m]
           after(r) == Answered(reg[r].rows, m, a.says)
       IN reg' = [r \in Regs |->
            IF r \notin a.over THEN reg[r]
            ELSE IF r = a.first THEN Judged([reg[r] EXCEPT !.rows = after(r)], a.verdict)
            ELSE Refreshed(reg[r], after(r))]
    /\ saved' = [saved EXCEPT ![m] = ans[m].says]
    /\ ans' = [ans EXCEPT ![m] = NoAnswer]
    /\ UNCHANGED desk

\* The transaction is rolled back.
AnswerFails(m) ==
    /\ Answering(m)
    /\ ans' = [ans EXCEPT ![m] = NoAnswer]
    /\ UNCHANGED <<saved, reg, desk>>

-----------------------------------------------------------------------------
(* Time.                                                                   *)

Lapse ==
    /\ \/ \E m \in People :
            saved[m] = "pending" /\ saved' = [saved EXCEPT ![m] = "lapsed"] /\ UNCHANGED reg
       \/ \E r \in Regs, m \in People :
            /\ reg[r].linked /\ reg[r].rows[m] = "pending"
            /\ reg' = [reg EXCEPT ![r].rows[m] = "lapsed"]
            /\ UNCHANGED saved
    /\ UNCHANGED <<ans, desk>>

Expired(s, held) == IF s = "lapsed" /\ ~held THEN "expired" ELSE s

\* applyDataHygiene: one update for each table, and no verdict is refreshed.
ExpireInvites ==
    /\ \/ /\ saved' = [m \in People |-> Expired(saved[m], Answering(m))]
          /\ saved' # saved /\ UNCHANGED reg
       \/ /\ reg' = [r \in Regs |-> [reg[r] EXCEPT !.rows =
                       [m \in People |-> Expired(@[m], r \in ans[m].over)]]]
          /\ reg' # reg /\ UNCHANGED saved
    /\ UNCHANGED <<ans, desk>>

-----------------------------------------------------------------------------
(* The captain, and staff for the captain.                                 *)

\* The registration a nudge is for: one whose row may be sent again, if any.
Related(m) == {r \in Regs : reg[r].linked /\ reg[r].rows[m] \in NUDGEABLE_INVITE_STATUSES}

\* nudgeTeamInvite, adminResendTeamInvite and adminResendRegistrationInvite up
\* to the transaction of reopenTeamInvite.
NudgeReads(m) ==
    /\ desk = Idle
    /\ saved[m] \in NUDGEABLE_INVITE_STATUSES
    /\ \E r \in IF Related(m) = {} THEN {NoReg} ELSE Related(m) :
         desk' = [Idle EXCEPT !.task = "nudge", !.who = m, !.reg = r]
    /\ UNCHANGED <<saved, reg, ans>>

\* Mutant: the registration's row is reopened without asking again.
ReopenedAnyway(rows, m) == [rows EXCEPT ![m] = "pending"]

Reopened(rows, m) ==
    IF rows[m] \in NUDGEABLE_INVITE_STATUSES THEN [rows EXCEPT ![m] = "pending"] ELSE rows

\* The team's row is written whatever it says now, the registration's only while
\* nobody has accepted.
NudgeWrites ==
    LET m == desk.who  r == desk.reg IN
    /\ desk.task = "nudge"
    /\ saved[m] # "absent" /\ ~Answering(m)
    /\ saved' = [saved EXCEPT ![m] = "pending"]
    /\ reg' = IF r = NoReg THEN reg
              ELSE [reg EXCEPT ![r] = Refreshed(@, Reopened(@.rows, m))]
    /\ desk' = Idle
    /\ UNCHANGED ans

\* updateSavedTeam up to its transaction.
ProfileReads ==
    /\ desk = Idle
    /\ saved # NoRows
    /\ desk' = [Idle EXCEPT !.task = "profile", !.seen = saved]
    /\ UNCHANGED <<saved, reg, ans>>

\* carryEmailChangesIntoOpenRegistrations, for one corrected address.
Carried(g, p, q) ==
    IF g.rows[p] \in NUDGEABLE_INVITE_STATUSES
    THEN Refreshed(g, [g.rows EXCEPT ![p] = "absent", ![q] = "pending"])
    ELSE g

\* Members who were there keep the answer that was read, newcomers are asked,
\* and a corrected address is carried to the registrations.  The carried address
\* is one their rosters do not name yet.
UpdateSavedTeam(S) ==
    /\ desk.task = "profile"
    /\ TeamQuiet
    /\ saved' = [m \in People |->
                   IF m \notin S THEN "absent"
                   ELSE IF desk.seen[m] # "absent" THEN desk.seen[m] ELSE "pending"]
    /\ \/ UNCHANGED reg
       \/ \E p \in People \ S, q \in S :
            /\ desk.seen[p] # "absent" /\ desk.seen[q] = "absent"
            /\ \A r \in OpenRegistrations : reg[r].rows[q] = "absent"
            /\ reg' = [r \in Regs |-> IF r \in OpenRegistrations
                                      THEN Carried(reg[r], p, q) ELSE reg[r]]
    /\ desk' = Idle
    /\ UNCHANGED ans

\* The request is refused or its process lost.
DropDesk == desk # Idle /\ desk' = Idle /\ UNCHANGED <<saved, reg, ans>>

-----------------------------------------------------------------------------
(* Staff.                                                                  *)

\* A corrected row belongs to an account; it keeps the answer it had.
Kept(s) == IF s = "seated" THEN "accepted" ELSE s

\* The rosters one correction can leave: the same, without somebody, with
\* somebody more (who counts as accepted), or with one address replaced.
Corrections(rows) ==
    LET now == [m \in People |-> Kept(rows[m])]
        on  == {m \in People : rows[m] # "absent"}
    IN {now}
       \union {[now EXCEPT ![m] = "absent"] : m \in on}
       \union {[now EXCEPT ![m] = "accepted"] : m \in People \ on}
       \union {[now EXCEPT ![p[1]] = "absent", ![p[2]] = now[p[1]]] :
                 p \in on \X (People \ on)}

\* correctTeamRegistrationRoster, with the saved team or without.
CorrectRoster(r) ==
    /\ reg[r].status # "none"
    /\ Quiet(r)
    /\ \E rows \in Corrections(reg[r].rows) :
         /\ reg' = [reg EXCEPT ![r] = Refreshed(@, rows)]
         /\ \/ UNCHANGED saved
            \/ /\ reg[r].linked /\ TeamQuiet
               /\ saved' = [m \in People |->
                    IF rows[m] = "absent" THEN "absent"
                    ELSE IF saved[m] # "absent" THEN Kept(saved[m]) ELSE rows[m]]
    /\ UNCHANGED <<ans, desk>>

Seated(s) == IF s \in Unanswered THEN "seated" ELSE s

\* An approval accepts for everyone who has not answered, on the registration
\* and on the saved team (acceptPendingRegistrationInvites).
StaffApproves(r) ==
    LET waiting == {m \in People : reg[r].rows[m] \in Unanswered}
        rows == [m \in People |-> Seated(reg[r].rows[m])]
    IN
    /\ reg[r].status \notin {"none", "approved"}
    /\ \A m \in waiting : ~Answering(m)
    /\ Quiet(r)
    /\ reg' = [reg EXCEPT ![r] = [@ EXCEPT !.status = "approved", !.rows = rows,
                  !.verdict = Verdict(rows), !.byHand = FALSE]]
    /\ saved' = IF reg[r].linked
                THEN [m \in People |-> IF m \in waiting THEN Seated(saved[m]) ELSE saved[m]]
                ELSE saved
    /\ UNCHANGED <<ans, desk>>

\* The other decisions write the registration's status, also under an answer.
StaffSetsStatus(r, to) ==
    /\ reg[r].status \notin {"none", to}
    /\ reg' = [reg EXCEPT ![r].status = to]
    /\ UNCHANGED <<saved, ans, desk>>

\* The verification set by hand.
StaffVerifies(r, verdict) ==
    /\ reg[r].status # "none" /\ verdict # reg[r].verdict
    /\ reg' = [reg EXCEPT ![r] = Approved([@ EXCEPT !.verdict = verdict, !.byHand = TRUE])]
    /\ UNCHANGED <<saved, ans, desk>>

StaffDecides(r) ==
    \/ CorrectRoster(r)
    \/ StaffApproves(r)
    \/ \E to \in StaffTargets : StaffSetsStatus(r, to)
    \/ \E v \in HandVerdicts : StaffVerifies(r, v)

-----------------------------------------------------------------------------
Next ==
    \/ \E S \in SUBSET People : CreateSavedTeam(S) \/ UpdateSavedTeam(S)
    \/ DeleteSavedTeam \/ ProfileReads \/ NudgeWrites \/ DropDesk
    \/ Lapse \/ ExpireInvites
    \/ \E r \in Regs :
         \/ \E S \in SUBSET People : RegisterTeam(r, S)
         \/ SyncRegistration(r)
         \/ StaffDecides(r)
    \/ \E m \in People :
         \/ \E d \in {"accepted", "declined"} : AnswerOpens(m, d)
         \/ AnswerCommits(m) \/ AnswerFails(m)
         \/ NudgeReads(m)

Spec == Init /\ [][Next]_vars

-----------------------------------------------------------------------------
(* What holds.                                                             *)

\* A roster counts as verified, and may be approved without a human, only when
\* everyone on it has accepted: no answer decided on an old view of the others,
\* no nudge, edit, correction or expiry in between makes it so too early.
VerifiedMeansAccepted == \A r \in Regs :
    reg[r].verdict = "verified" /\ ~reg[r].byHand =>
        \A m \in People : reg[r].rows[m] \in Accepted \union {"absent"}

\* Who accepted a place in a tournament keeps it until the roster itself is
\* changed: no late nudge, resend, copy or sweep reopens it.
SeatKept == [][\A r \in Regs, m \in People :
    reg[r].rows[m] \in Accepted => reg'[r].rows[m] \in Accepted \union {"absent"}]_vars

\* A registration leaves the waitlist or a rejection only by a decision of
\* staff, even when an answer that began before the decision ends after it.
DecisionsStand == [][\A r \in Regs :
    /\ reg[r].status \in {"waitlisted", "rejected"}
    /\ reg'[r].status # reg[r].status
    => StaffDecides(r)]_vars

-----------------------------------------------------------------------------
(* What the comments say and the code does not keep.                       *)

\* registration-verification.js: "Recomputed from the invitations themselves
\* rather than tracked alongside them, so the roster's state cannot drift from
\* the answers it is made of."  With no answer under way, a roster everyone has
\* accepted is verified.
VerdictFollowsAnswers ==
    TeamQuiet => \A r \in OpenRegistrations :
        (\A m \in People : reg[r].rows[m] \in Accepted \union {"absent"})
            => reg[r].verdict = "verified" \/ reg[r].byHand

=============================================================================
