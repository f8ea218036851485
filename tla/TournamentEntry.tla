--------------------------- MODULE TournamentEntry ---------------------------
(***************************************************************************)
(* Entry to one tournament: registrations, capacity, numbered slots, the   *)
(* waitlist, admin slot holds and the payments that settle a registration. *)
(*                                                                         *)
(*   modules/tournaments/registration-*.js   the entrant's own requests    *)
(*   modules/payments/*.js                   provider callbacks, proofs,   *)
(*                                           reviews and expiry            *)
(*   modules/admin/admin-registration*.js    staff decisions               *)
(*                                                                         *)
(* Every transaction is one step: they run SERIALIZABLE and are retried,   *)
(* and the three that do not (expiry, deletion, release of a hold) consist *)
(* of conditional writes to rows the others also write.  What is read      *)
(* BEFORE a transaction is a step of its own: the entrant's request loads  *)
(* the registration and decides on a path (form), and the staff endpoint   *)
(* loads status and payment and decides on a branch (desk).                *)
(*                                                                         *)
(* A refused request changes nothing and is a step that is not taken.  The *)
(* registration window, duplicate team names and coach/player conflicts    *)
(* only refuse, so they are left to that choice.                           *)
(***************************************************************************)
EXTENDS Integers, FiniteSets

CONSTANTS
    Regs,            \* the entrants; each has at most one registration
    NoReg,           \* nobody
    MaxTeams,        \* tournaments.maxTeams
    Unlimited,       \* maxTeams IS NULL
    WaitlistEnabled,
    FeeCharged,      \* registrationFeeAmount > 0
    TeamEntry,       \* entryType = 'team' (otherwise solo)
    Provider,        \* tournaments.paymentMethod
    AutoApprove,     \* autoApproveRegistrations
    HoldTime,        \* reservationMinutes, in ticks
    ReviewTime,      \* bankTransferReviewMinutes, in ticks
    Reports,         \* the PayHere notifications of a payment: [code, charge]
    StaffTargets,    \* bound: the statuses staff set
    StaffVerdicts,   \* bound: the verification statuses staff set
    MaxPayments,     \* bound: payments ever created
    MaxPosition      \* bound: the highest waitlist position

ASSUME EntryAssumption ==
    /\ IsFiniteSet(Regs) /\ NoReg \notin Regs
    /\ MaxTeams \in Nat
    /\ {Unlimited, WaitlistEnabled, FeeCharged, TeamEntry, AutoApprove} \subseteq BOOLEAN
    /\ Provider \in {"payhere", "bank_transfer"}
    /\ HoldTime \in Nat \ {0} /\ ReviewTime \in Nat \ {0}
    /\ Reports \subseteq [code: {"paid", "pending", "cancelled", "failed", "charged_back"},
                         charge: Nat]
    /\ StaffTargets \subseteq {"pending", "approved", "rejected", "waitlisted"}
    /\ StaffVerdicts \subseteq {"pending", "verified", "flagged"}
    /\ MaxPayments \in Nat /\ MaxPosition \in Nat

VARIABLES
    reg,     \* team_registrations, with the row's admin slot hold
    pay,     \* payment_transactions, with proof and notification audit
    form,    \* an entrant's request between its first read and its write
    desk,    \* a staff status update between its first read and its write
    waived   \* the registrations whose fee staff waived

requests == <<form, desk>>
vars     == <<reg, pay, form, desk, waived>>

Pays     == 1 .. MaxPayments
Never    == -1                                   \* reservedUntil IS NULL
LongestTimer == IF HoldTime > ReviewTime THEN HoldTime ELSE ReviewTime

RegStatus == {"none", "pending", "approved", "rejected", "waitlisted"}
Verdict   == {"pending", "verified", "flagged"}
Live      == {"created", "pending", "review_required"}
Reversed  == {"cancelled", "failed", "charged_back", "refunded"}
TerminalFailure == Reversed \cup {"expired", "review_required"}
PayStatus == {"none", "created", "pending", "paid", "expired"}
                \cup Reversed \cup {"review_required"}

\* left is the time until reservedUntil, 0 once it has passed.  slot, wait and
\* hold are 0 for NULL (assignedSlotNumber, waitlistPosition, no hold).  verif
\* is the stored verificationStatus, invites the members' own answers.
Row == [status: RegStatus, fee: {"unpaid", "pending", "paid"},
        left: Never .. LongestTimer, slot: Nat, wait: Nat, hold: Nat,
        verif: Verdict, invites: {"open", "accepted", "declined"}]

Payment == [of: Regs \cup {NoReg}, status: PayStatus, proof: BOOLEAN,
            seen: SUBSET Reports]

Absent == [status |-> "none", fee |-> "unpaid", left |-> Never, slot |-> 0,
           wait |-> 0, hold |-> 0, verif |-> "pending", invites |-> "open"]
Unborn == [of |-> NoReg, status |-> "none", proof |-> FALSE, seen |-> {}]
NoForm == [reg |-> NoReg, path |-> "resume"]
NoDesk == [reg |-> NoReg, to |-> "pending", queued |-> FALSE]

TypeOK ==
    /\ reg \in [Regs -> Row]
    /\ pay \in [Pays -> Payment]
    /\ form \in [reg: Regs \cup {NoReg}, path: {"resume", "retry"}]
    /\ desk \in [reg: Regs \cup {NoReg}, to: RegStatus, queued: BOOLEAN]
    /\ waived \subseteq Regs

Init ==
    /\ reg = [r \in Regs |-> Absent]
    /\ pay = [p \in Pays |-> Unborn]
    /\ form = NoForm
    /\ desk = NoDesk
    /\ waived = {}

-----------------------------------------------------------------------------
(* Capacity and slots.                                                     *)

Active(row) ==
    /\ row.status \notin {"none", "rejected", "waitlisted"}
    /\ \/ row.fee = "paid"
       \/ row.fee = "pending" /\ row.left > 0

ActiveOthers(r) == {q \in Regs \ {r} : Active(reg[q])}
HeldOthers(r)   == {q \in Regs \ {r} : reg[q].hold # 0}

CapacityUsed(r) ==
    Cardinality(ActiveOthers(r)) + Cardinality(HeldOthers(r))
        - Cardinality(ActiveOthers(r) \cap HeldOthers(r))

OneTooManyHasRoom(r) == Unlimited \/ CapacityUsed(r) <= MaxTeams

HasRoom(r) == Unlimited \/ CapacityUsed(r) < MaxTeams

HoldsUncountedUsedSlots(r) == {reg[q].slot : q \in ActiveOthers(r)} \ {0}

UsedSlots(r) ==
    ({reg[q].slot : q \in ActiveOthers(r)} \cup {reg[q].hold : q \in HeldOthers(r)}) \ {0}

LastSlot(r) == IF Unlimited THEN Cardinality(UsedSlots(r)) + 1 ELSE MaxTeams

IsLowestFree(s, r) ==
    /\ s \in 1 .. LastSlot(r)
    /\ s \notin UsedSlots(r)
    /\ \A t \in 1 .. s - 1 : t \in UsedSlots(r)

AnySlot == 0 .. (IF Unlimited THEN 2 * Cardinality(Regs) + 1 ELSE MaxTeams)

\* The slot a new payment is quoted for: the entrant's own hold, else the
\* lowest free one for a bank transfer and none for PayHere.
IsQuotedSlot(s, r) ==
    IF reg[r].hold # 0 THEN s = reg[r].hold
    ELSE IF Provider = "bank_transfer" THEN IsLowestFree(s, r)
    ELSE s = 0

-----------------------------------------------------------------------------
(* The waitlist.  (tournamentId, waitlistPosition) is unique over all rows *)
(* of the tournament, waitlisted or not; a write that would break it is    *)
(* refused by the database.                                                *)

Waiting == {q \in Regs : reg[q].status = "waitlisted"}

\* Mutant: the lowest position nobody holds.
LowestFreeIsNextPosition(n) ==
    /\ \A q \in Waiting : reg[q].wait # n
    /\ \A m \in 1 .. (n - 1) : \E q \in Waiting : reg[q].wait = m

IsNextPosition(n) ==
    /\ \A q \in Waiting : reg[q].wait < n
    /\ n = 1 \/ \E q \in Waiting : reg[q].wait = n - 1

FirstInLine(r) == \A q \in Waiting : reg[r].wait <= reg[q].wait

Compacted(rows, position) ==
    [q \in Regs |->
        IF /\ position # 0
           /\ rows[q].status = "waitlisted" /\ rows[q].wait > position
        THEN [rows[q] EXCEPT !.wait = @ - 1]
        ELSE rows[q]]

WaitlistIndex(rows) ==
    \A q, s \in Regs : q # s /\ rows[q].wait # 0 => rows[q].wait # rows[s].wait

-----------------------------------------------------------------------------
(* Payments.                                                               *)

PaymentsOf(r) == {p \in Pays : pay[p].of = r}

LatestIn(r, S) ==
    \E p \in PaymentsOf(r) :
        pay[p].status \in S /\ \A q \in PaymentsOf(r) : q <= p

Retired(r, from, to) ==
    [p \in Pays |-> IF pay[p].of = r /\ pay[p].status \in from
                    THEN [pay[p] EXCEPT !.status = to] ELSE pay[p]]

\* Close the entrant's open payments and start a new one, which becomes the
\* latest (orderBy createdAt).
MayBeNext(p, r) == pay[p].status = "none" /\ \A q \in PaymentsOf(r) : q < p

NewPayment(r) ==
    \E p \in Pays :
        /\ MayBeNext(p, r)
        /\ \A q \in 1 .. p - 1 : ~MayBeNext(q, r)
        /\ pay' = [Retired(r, Live, "expired") EXCEPT
                     ![p] = [Unborn EXCEPT !.of = r, !.status = "created"]]

AutoApproved(row) ==
    IF /\ AutoApprove
       /\ row.status = "pending" /\ row.fee = "paid"
       /\ TeamEntry => row.verif = "verified"
    THEN [row EXCEPT !.status = "approved"]
    ELSE row

\* What the members' answers say, the stored status where they say nothing.
RosterVerdict(row) ==
    CASE row.invites = "declined" -> "flagged"
      [] row.invites = "accepted" -> "verified"
      [] OTHER -> row.verif

KeepWaivers == waived' = {q \in waived : reg'[q].fee = "paid"}

-----------------------------------------------------------------------------
(* The entrant: createConfiguredRegistration without a registration.       *)

PaysOnEntry == FeeCharged /\ ~TeamEntry

Admit(r, row) ==
    /\ HasRoom(r)
    /\ \E s \in AnySlot :
         /\ IF PaysOnEntry THEN IsQuotedSlot(s, r) ELSE s = 0
         /\ reg' = [reg EXCEPT ![r] = AutoApproved([row EXCEPT
                !.status = "pending",
                !.fee = IF PaysOnEntry THEN "pending"
                        ELSE IF FeeCharged THEN "unpaid" ELSE "paid",
                !.left = IF PaysOnEntry THEN HoldTime ELSE Never,
                !.slot = s])]
    /\ IF PaysOnEntry THEN NewPayment(r) ELSE UNCHANGED pay

Enqueue(r, row) ==
    /\ ~HasRoom(r) /\ WaitlistEnabled
    /\ \E n \in 1 .. MaxPosition :
         /\ IsNextPosition(n)
         /\ reg' = [reg EXCEPT ![r] = [row EXCEPT !.status = "waitlisted", !.wait = n]]
    /\ WaitlistIndex(reg')
    /\ UNCHANGED pay

Register(r) ==
    /\ reg[r].status = "none"
    /\ \E answers \in (IF TeamEntry THEN {"open", "accepted"} ELSE {"accepted"}) :
         LET row == [Absent EXCEPT !.invites = answers,
                        !.verif = IF answers = "accepted" THEN "verified" ELSE "pending"]
         IN Admit(r, row) \/ Enqueue(r, row)
    /\ KeepWaivers
    /\ UNCHANGED requests

-----------------------------------------------------------------------------
(* The entrant: createConfiguredRegistration with a registration.  What    *)
(* the request read decides the path; the transaction checks some of it    *)
(* again.                                                                  *)

ReservationRuns(r) == reg[r].fee = "pending" /\ reg[r].left > 0

LoadEntry(r, path) ==
    /\ form = NoForm
    /\ FeeCharged
    /\ reg[r].status \notin {"none", "waitlisted"}
    /\ reg[r].fee # "paid"
    /\ ~LatestIn(r, {"expired"})
    /\ TeamEntry => RosterVerdict(reg[r]) = "verified"
    /\ IF path = "resume"
       THEN ~(LatestIn(r, Live) /\ ReservationRuns(r))
       ELSE /\ ~(TeamEntry /\ reg[r].fee = "unpaid")
            /\ ~(Provider = "bank_transfer" /\ LatestIn(r, Live) /\ ReservationRuns(r))
    /\ form' = [reg |-> r, path |-> path]
    /\ UNCHANGED <<reg, pay, desk, waived>>

\* startExistingRegistrationPayment.
ResumePayment(r) ==
    /\ form = [reg |-> r, path |-> "resume"]
    /\ reg[r].fee # "paid"
    /\ reg[r].status # "rejected"
    /\ TeamEntry => RosterVerdict(reg[r]) = "verified"
    /\ HasRoom(r)
    /\ \E s \in AnySlot :
         /\ IsQuotedSlot(s, r)
         /\ reg' = [reg EXCEPT ![r] = [@ EXCEPT
                !.fee = "pending", !.verif = RosterVerdict(reg[r]),
                !.left = HoldTime, !.slot = s, !.hold = 0]]
    /\ NewPayment(r)
    /\ form' = NoForm
    /\ KeepWaivers
    /\ UNCHANGED desk

\* The resubmission of an unpaid registration: a fresh reservation.
RetryEntry(r) ==
    /\ form = [reg |-> r, path |-> "retry"]
    /\ reg[r].fee # "paid"
    /\ HasRoom(r)
    /\ \E s \in AnySlot, answers \in (IF TeamEntry THEN {"open", "accepted"} ELSE {"accepted"}) :
         /\ IsQuotedSlot(s, r)
         /\ reg' = [reg EXCEPT ![r] = [@ EXCEPT
                !.status = "pending", !.fee = "pending", !.left = HoldTime,
                !.slot = s, !.hold = 0, !.invites = answers,
                !.verif = IF TeamEntry /\ answers = "accepted" THEN "verified" ELSE "pending"]]
    /\ NewPayment(r)
    /\ form' = NoForm
    /\ KeepWaivers
    /\ UNCHANGED desk

\* The same resubmission when the tournament has filled up meanwhile.
RetryIntoWaitlist(r) ==
    /\ form = [reg |-> r, path |-> "retry"]
    /\ reg[r].fee # "paid"
    /\ ~ReservationRuns(r)
    /\ ~HasRoom(r) /\ WaitlistEnabled
    /\ \E n \in 1 .. MaxPosition :
         /\ IF reg[r].status = "waitlisted" THEN n = reg[r].wait ELSE IsNextPosition(n)
         /\ reg' = [reg EXCEPT ![r] = [@ EXCEPT
                !.status = "waitlisted", !.fee = "unpaid", !.left = Never,
                !.slot = 0, !.hold = 0, !.wait = n]]
    /\ WaitlistIndex(reg')
    /\ form' = NoForm
    /\ KeepWaivers
    /\ UNCHANGED <<pay, desk>>

\* A request that was refused, or whose process was lost.
DropForm == form # NoForm /\ form' = NoForm /\ UNCHANGED <<reg, pay, desk, waived>>

\* Deleting the row takes its hold and payments with it; requests that loaded
\* it will not find its id again.
Erase(r) ==
    /\ reg' = [reg EXCEPT ![r] = Absent]
    /\ pay' = [p \in Pays |-> IF p \in PaymentsOf(r) THEN Unborn ELSE pay[p]]
    /\ form' = IF form.reg = r THEN NoForm ELSE form
    /\ desk' = IF desk.reg = r THEN NoDesk ELSE desk
    /\ KeepWaivers

CancelUnpaidRegistration(r) ==
    /\ reg[r].status # "none"
    /\ ~LatestIn(r, {"expired"})
    /\ reg[r].fee = "unpaid"
    /\ Erase(r)

-----------------------------------------------------------------------------
(* PayHere: processPayHereNotification and applyTargetStatus.  A report    *)
(* says what became of a charge (status_code, payment_id).  The audit      *)
(* table remembers every report by its digest, so each is acted on once;   *)
(* they may arrive late and in any order, and an order may be charged more *)
(* than once.                                                              *)

ChargebackKeptSettled(row, outcome) ==
    IF outcome = "paid" THEN AutoApproved([row EXCEPT !.fee = "paid", !.left = Never])
    ELSE IF outcome \in {"cancelled", "failed"}
    THEN [row EXCEPT !.hold = 0, !.fee = "unpaid", !.left = Never]
    ELSE [row EXCEPT !.hold = 0]

Settled(row, outcome) ==
    CASE outcome = "paid" ->
           AutoApproved([row EXCEPT !.hold = 0, !.fee = "paid", !.left = Never])
      [] outcome \in Reversed -> [row EXCEPT !.hold = 0, !.fee = "unpaid", !.left = Never]
      [] outcome = "pending" -> [row EXCEPT !.hold = 0, !.fee = "pending"]
      [] OTHER -> [row EXCEPT !.hold = 0]

Payable(p) ==
    LET r == pay[p].of IN
    /\ pay[p].status \notin TerminalFailure
    /\ reg[r].status # "rejected"
    /\ reg[r].fee = "paid" \/ reg[r].left > 0
    /\ HasRoom(r)

NotifiedStatus(p, code, conflict) ==
    CASE code = "paid" -> IF Payable(p) /\ ~conflict THEN "paid" ELSE "review_required"
      [] code # "paid" /\ pay[p].status = "paid" /\ code # "charged_back" -> "paid"
      [] code # "paid" /\ pay[p].status \in TerminalFailure -> pay[p].status
      [] OTHER -> code

\* Mutant: a report is acted on every time it comes.
EveryTime(p, report) == report \in Reports

NotProcessed(p, report) == report \notin pay[p].seen

Notify(p, report) ==
    /\ Provider = "payhere"
    /\ pay[p].of # NoReg
    /\ NotProcessed(p, report)
    /\ \E conflict \in {FALSE, TeamEntry} :     \* a coach/player role conflict
         LET applied == NotifiedStatus(p, report.code, conflict) IN
         /\ pay' = [pay EXCEPT ![p] = [pay[p] EXCEPT
                                   !.status = applied, !.seen = pay[p].seen \cup {report}]]
         /\ reg' = IF applied = pay[p].status THEN reg
                   ELSE [reg EXCEPT ![pay[p].of] = Settled(@, applied)]
    /\ KeepWaivers
    /\ UNCHANGED requests

-----------------------------------------------------------------------------
(* Staff decisions on payments.                                            *)

AwaitsReview(p) == pay[p].of # NoReg /\ pay[p].status = "review_required"

\* reconcilePayHerePayment, accept.
AcceptPayHere(p) ==
    /\ Provider = "payhere" /\ AwaitsReview(p)
    /\ reg[pay[p].of].status # "rejected"
    /\ HasRoom(pay[p].of)
    /\ pay' = [pay EXCEPT ![p].status = "paid"]
    /\ reg' = [reg EXCEPT ![pay[p].of] = Settled(@, "paid")]
    /\ KeepWaivers
    /\ UNCHANGED requests

\* reconcilePayHerePayment, mark_refunded.
MarkRefunded(p) ==
    /\ Provider = "payhere" /\ AwaitsReview(p)
    /\ pay' = [pay EXCEPT ![p].status = "refunded"]
    /\ reg' = [reg EXCEPT ![pay[p].of] = Settled(@, "refunded")]
    /\ KeepWaivers
    /\ UNCHANGED requests

SubmitBankTransferProof(p) ==
    /\ Provider = "bank_transfer"
    /\ pay[p].of # NoReg /\ pay[p].status \in Live
    /\ reg[pay[p].of].verif = "verified"
    /\ reg[pay[p].of].left > 0
    /\ pay' = [pay EXCEPT ![p] = [@ EXCEPT !.status = "review_required", !.proof = TRUE]]
    /\ reg' = [reg EXCEPT ![pay[p].of] = [@ EXCEPT !.fee = "pending", !.left = ReviewTime]]
    /\ KeepWaivers
    /\ UNCHANGED requests

ApproveBankTransfer(p) ==
    /\ AwaitsReview(p) /\ pay[p].proof
    /\ reg[pay[p].of].left > 0
    /\ HasRoom(pay[p].of)
    /\ pay' = [pay EXCEPT ![p].status = "paid"]
    /\ reg' = [reg EXCEPT ![pay[p].of] = Settled(@, "paid")]
    /\ KeepWaivers
    /\ UNCHANGED requests

RejectBankTransfer(p) ==
    /\ AwaitsReview(p) /\ pay[p].proof
    /\ pay' = [pay EXCEPT ![p].status = "failed"]
    /\ reg' = [reg EXCEPT ![pay[p].of] = [@ EXCEPT !.fee = "unpaid", !.left = Never,
                                                   !.slot = 0, !.hold = 0]]
    /\ KeepWaivers
    /\ UNCHANGED requests

ReopenExpiredPayment(p) ==
    LET r == pay[p].of IN
    /\ r # NoReg /\ pay[p].status = "expired"
    /\ reg[r].status # "rejected"
    /\ reg[r].fee # "paid"
    /\ HasRoom(r)
    /\ \E s \in AnySlot :
         /\ IF Provider = "bank_transfer" THEN IsLowestFree(s, r) ELSE s = 0
         /\ reg' = [reg EXCEPT ![r] = [@ EXCEPT !.fee = "pending", !.slot = s,
                        !.left = IF pay[p].proof THEN ReviewTime ELSE HoldTime]]
    /\ pay' = [pay EXCEPT ![p].status = IF pay[p].proof THEN "review_required" ELSE "pending"]
    /\ KeepWaivers
    /\ UNCHANGED requests

-----------------------------------------------------------------------------
(* Staff decisions on registrations: updateTeamRegistrationStatus.         *)

LoadForStatus(r, to) ==
    /\ desk = NoDesk
    /\ reg[r].status # "none"
    /\ to = "approved" /\ FeeCharged => reg[r].fee = "paid"
    /\ to = "waitlisted" => WaitlistEnabled
    /\ desk' = [reg |-> r, to |-> to, queued |-> reg[r].status = "waitlisted"]
    /\ UNCHANGED <<reg, pay, form, waived>>

\* Approval answers the pending invitations itself; otherwise the request may
\* carry a verdict of its own.
Decided(row, to) ==
    IF to = "approved"
    THEN {[row EXCEPT !.status = to,
              !.invites = IF @ = "open" THEN "accepted" ELSE @,
              !.verif = IF row.invites = "declined" THEN "flagged" ELSE "verified"]}
    ELSE {[row EXCEPT !.status = to, !.verif = v] : v \in {row.verif} \cup StaffVerdicts}

StaffWaitlists(r) ==
    /\ desk.reg = r /\ desk.to = "waitlisted"
    /\ \E n \in 1 .. MaxPosition, row \in Decided(reg[r], "waitlisted") :
         /\ IF reg[r].status = "waitlisted" THEN n = reg[r].wait ELSE IsNextPosition(n)
         /\ reg' = [reg EXCEPT ![r] = [row EXCEPT !.wait = n, !.slot = 0,
                                                  !.left = Never, !.hold = 0]]
    /\ WaitlistIndex(reg')
    /\ desk' = NoDesk
    /\ KeepWaivers
    /\ UNCHANGED <<pay, form>>

StaffPromotes(r) ==
    /\ desk.reg = r /\ desk.queued /\ desk.to \in {"pending", "approved"}
    /\ reg[r].status = "waitlisted" /\ FirstInLine(r)
    /\ HasRoom(r)
    /\ \E s \in AnySlot, row \in Decided(reg[r], desk.to) :
         /\ IsLowestFree(s, r)
         /\ reg' = Compacted([reg EXCEPT ![r] = [row EXCEPT !.slot = s, !.wait = 0,
                        !.fee = IF FeeCharged THEN @ ELSE "paid"]], reg[r].wait)
    /\ WaitlistIndex(reg')
    /\ desk' = NoDesk
    /\ KeepWaivers
    /\ UNCHANGED <<pay, form>>

StaffRejectsFromWaitlist(r) ==
    /\ desk.reg = r /\ desk.queued /\ desk.to = "rejected"
    /\ reg[r].status = "waitlisted"
    /\ \E row \in Decided(reg[r], "rejected") :
         reg' = Compacted([reg EXCEPT ![r] = [row EXCEPT !.wait = 0]], reg[r].wait)
    /\ WaitlistIndex(reg')
    /\ desk' = NoDesk
    /\ KeepWaivers
    /\ UNCHANGED <<pay, form>>

\* The plain branch, chosen for a row that was not waitlisted when it was read,
\* and the promotion branch when the row has left the waitlist since.
StaffSetsStatus(r) ==
    /\ desk.reg = r /\ desk.to # "waitlisted"
    /\ desk.queued => reg[r].status # "waitlisted"
    /\ \E row \in Decided(reg[r], desk.to) : reg' = [reg EXCEPT ![r] = row]
    /\ desk' = NoDesk
    /\ KeepWaivers
    /\ UNCHANGED <<pay, form>>

DropDesk == desk # NoDesk /\ desk' = NoDesk /\ UNCHANGED <<reg, pay, form, waived>>

UnfinishedStaffVerifies(r, verdict) ==
    /\ reg[r].status # "none"
    /\ reg' = [reg EXCEPT ![r].verif = verdict]
    /\ KeepWaivers
    /\ UNCHANGED <<pay, requests>>

\* verificationStatus alone; confirming the roster may approve the entry.
StaffVerifies(r, verdict) ==
    /\ reg[r].status # "none"
    /\ LET row == [reg[r] EXCEPT !.verif = verdict]
       IN reg' = [reg EXCEPT ![r] = IF verdict = "verified" THEN AutoApproved(row) ELSE row]
    /\ KeepWaivers
    /\ UNCHANGED <<pay, requests>>

\* adminOverridePayment: approve without payment.
WaivePayment(r) ==
    /\ reg[r].status \notin {"none", "rejected"}
    /\ reg[r].status = "waitlisted" => FirstInLine(r)
    /\ \E s \in AnySlot, row \in Decided(reg[r], "approved") :
         /\ IF reg[r].slot # 0 THEN s = reg[r].slot
            ELSE IF reg[r].hold # 0 THEN s = reg[r].hold
            ELSE HasRoom(r) /\ IsLowestFree(s, r)
         /\ LET queued == reg[r].status = "waitlisted"
                now    == [row EXCEPT !.fee = "paid", !.slot = s, !.left = Never,
                                      !.hold = 0, !.wait = IF queued THEN 0 ELSE @]
            IN reg' = Compacted([reg EXCEPT ![r] = now], IF queued THEN reg[r].wait ELSE 0)
    /\ WaitlistIndex(reg')
    /\ pay' = Retired(r, {"created", "pending", "expired", "review_required"}, "cancelled")
    /\ waived' = waived \cup {r}
    /\ UNCHANGED requests

ReserveAdminSlot(r) ==
    /\ reg[r].status \notin {"none", "rejected"}
    /\ reg[r].fee # "paid"
    /\ reg[r].invites = "open"
    /\ reg[r].hold = 0
    /\ HasRoom(r)
    /\ \E s \in AnySlot : IsLowestFree(s, r) /\ reg' = [reg EXCEPT ![r].hold = s]
    /\ KeepWaivers
    /\ UNCHANGED <<pay, requests>>

ReleaseAdminSlot(r) ==
    /\ reg[r].hold # 0
    /\ reg' = [reg EXCEPT ![r].hold = 0]
    /\ KeepWaivers
    /\ UNCHANGED <<pay, requests>>

DeleteTeamRegistration(r) == reg[r].status # "none" /\ Erase(r)

-----------------------------------------------------------------------------
(* The roster's answers (refreshRegistrationVerificationStatus), the clock *)
(* and commerce maintenance.                                               *)

RosterAnswers(r, answers) ==
    /\ TeamEntry
    /\ reg[r].status \in {"pending", "waitlisted"} /\ reg[r].invites # answers
    /\ LET row == [reg[r] EXCEPT !.invites = answers]
       IN reg' = [reg EXCEPT ![r] = AutoApproved([row EXCEPT
                    !.verif = IF answers = "open" THEN "pending" ELSE RosterVerdict(row)])]
    /\ KeepWaivers
    /\ UNCHANGED <<pay, requests>>

EveryRowTick ==
    /\ \E r \in Regs : reg[r].left > 0
    /\ reg' = [r \in Regs |-> [reg[r] EXCEPT !.left = @ - 1]]
    /\ UNCHANGED <<pay, requests, waived>>

Tick ==
    /\ \E r \in Regs : reg[r].left > 0
    /\ reg' = [r \in Regs |-> IF reg[r].left > 0 THEN [reg[r] EXCEPT !.left = @ - 1]
                              ELSE reg[r]]
    /\ UNCHANGED <<pay, requests, waived>>

PendingOnlyExpireReservation(r) ==
    /\ reg[r].status = "pending" /\ reg[r].fee = "pending" /\ reg[r].left = 0
    /\ reg' = [reg EXCEPT ![r] = [@ EXCEPT !.fee = "unpaid", !.left = Never, !.slot = 0]]
    /\ pay' = Retired(r, Live, "expired")
    /\ KeepWaivers
    /\ UNCHANGED requests

\* expireTournamentRegistrationReservation, from the maintenance sweep or from
\* a read of the payment's status.
ExpireReservation(r) ==
    /\ reg[r].fee = "pending" /\ reg[r].left = 0
    /\ reg' = [reg EXCEPT ![r] = [@ EXCEPT !.fee = "unpaid", !.left = Never, !.slot = 0]]
    /\ pay' = Retired(r, Live, "expired")
    /\ KeepWaivers
    /\ UNCHANGED requests

-----------------------------------------------------------------------------

EntrantStep(r) ==
    \/ Register(r)
    \/ \E path \in {"resume", "retry"} : LoadEntry(r, path)
    \/ ResumePayment(r) \/ RetryEntry(r) \/ RetryIntoWaitlist(r)
    \/ CancelUnpaidRegistration(r)
    \/ \E answers \in {"open", "accepted", "declined"} : RosterAnswers(r, answers)

StaffStep(r) ==
    \/ \E to \in StaffTargets : LoadForStatus(r, to)
    \/ StaffWaitlists(r) \/ StaffPromotes(r) \/ StaffRejectsFromWaitlist(r)
    \/ StaffSetsStatus(r) \/ WaivePayment(r)
    \/ \E verdict \in StaffVerdicts : StaffVerifies(r, verdict)
    \/ ReserveAdminSlot(r) \/ ReleaseAdminSlot(r)
    \/ DeleteTeamRegistration(r)

PaymentStep(p) ==
    \/ \E report \in Reports : Notify(p, report)
    \/ AcceptPayHere(p) \/ MarkRefunded(p)
    \/ SubmitBankTransferProof(p) \/ ApproveBankTransfer(p) \/ RejectBankTransfer(p)
    \/ ReopenExpiredPayment(p)

Next ==
    \/ \E r \in Regs : EntrantStep(r) \/ StaffStep(r) \/ ExpireReservation(r)
    \/ \E p \in Pays : PaymentStep(p)
    \/ DropForm \/ DropDesk
    \/ Tick

Spec == Init /\ [][Next]_vars

\* Time passes, and the maintenance sweep comes round to every row.
Fairness == WF_vars(Tick) /\ \A r \in Regs : WF_vars(ExpireReservation(r))

FairSpec == Spec /\ Fairness

-----------------------------------------------------------------------------
(* What holds.                                                             *)

\* The successes reported of a payment, one for each charge.
Charges(p) == {report \in pay[p].seen : report.code = "paid"}

\* Money the entrant's place rests on: paid, or paid once and put under review
\* for a second charge.
Funds(p) ==
    \/ pay[p].status = "paid"
    \/ pay[p].status = "review_required" /\ \E a, b \in Charges(p) : a # b

\* A registration of a paid tournament counts as paid only while one of its
\* payments is paid, or was and is under review for a second charge, or staff
\* waived the fee: no order of callbacks, reviews, expiries, reopenings and
\* refunds of its several payments leaves a free seat.
PaidIsFunded ==
    FeeCharged =>
        \A r \in Regs : reg[r].fee = "paid" =>
            r \in waived \/ \E p \in PaymentsOf(r) : Funds(p)

\* A waitlisted row always has a position, which getNextWaitlistPosition and
\* the promotion of the first in line rely on.
WaitlistedHasPosition ==
    \A r \in Regs : reg[r].status = "waitlisted" => reg[r].wait > 0

\* A reservation whose time is running for a bank transfer has its numbered
\* slot, within the tournament: the price and the receipt refer to it.
BankReservationNumbered ==
    Provider = "bank_transfer" /\ ~Unlimited =>
        \A r \in Regs : ReservationRuns(r) => reg[r].slot \in 1 .. MaxTeams

\* The two staff decisions that do not count the tournament's capacity.
StaffForces ==
    \E r \in Regs : StaffSetsStatus(r) \/ (WaivePayment(r) /\ reg[r].slot # 0)

Occupants == {r \in Regs : Active(reg[r]) \/ reg[r].hold # 0}

\* The numbered slots a row occupies.
Places(row) == ({row.hold} \cup IF Active(row) THEN {row.slot} ELSE {}) \ {0}

Tournament == INSTANCE TournamentPlaces WITH
                  Entrants <- Regs,
                  Numbered <- Provider = "bank_transfer",
                  inside   <- Occupants,
                  slots    <- [r \in Regs |-> Places(reg[r])]

\* Nothing else fills the tournament beyond its capacity: no race of entrants,
\* callbacks, reviews, reopenings, holds and promotions for the last slot.  Every
\* other step is one of TournamentPlaces: one entrant comes in while there is
\* room, or places are given up, and nobody's place goes to somebody else.
OnlyStaffOverfills == [][StaffForces \/ [Tournament!Next]_(Tournament!vars)]_vars

NoSharedSlot ==
    \A q, s \in Regs : q # s => Places(reg[q]) \cap Places(reg[s]) = {}

\* In a bank-transfer tournament a slot that is held or reserved is never given
\* to a second entrant, except by those two staff decisions.
SlotsStayApart ==
    [][Provider = "bank_transfer" /\ NoSharedSlot => NoSharedSlot' \/ StaffForces]_vars

\* Compaction, gaps left by deleted rows, and stale requests never let one
\* waiting entrant overtake another, and a newcomer joins behind everybody.
QueueOrderKept ==
    [][ \A q \in Waiting, s \in Regs :
          /\ reg'[q].status = "waitlisted" /\ reg'[s].status = "waitlisted"
          /\ q # s
          /\ reg[s].status = "waitlisted" => reg[q].wait < reg[s].wait
          => reg'[q].wait < reg'[s].wait ]_vars

\* Nothing is outstanding on this row: it waits for an approval alone.
Complete(row) ==
    row.status = "pending" /\ row.fee = "paid" /\ (TeamEntry => row.verif = "verified")

\* Where registrations approve themselves, none becomes complete without being
\* approved in the same step, whichever of payment, roster and staff came last;
\* only staff who set the status to pending leave one so.
CompleteIsApproved ==
    [][ \A r \in Regs :
          AutoApprove /\ Complete(reg'[r]) =>
            Complete(reg[r]) \/ StaffSetsStatus(r) \/ StaffPromotes(r) ]_vars

\* A refund stands, however late and often the provider repeats itself, until a
\* charge is reported that was not known before; and that one is for staff to
\* review, never taken as the fee by itself.
RefundStands ==
    [][ \A p \in Pays : pay[p].status = "refunded" =>
            \/ pay'[p].status = "refunded" \/ pay'[p] = Unborn
            \/ pay'[p].status = "review_required" /\ Charges(p)' # Charges(p) ]_vars

ReservationOpen(r) == reg[r].fee = "pending" /\ reg[r].left # Never
Renews(r) == reg'[r].left > reg[r].left

\* A reservation that is not renewed for ever ends: paid, given up or expired.
ReservationsEnd ==
    \A r \in Regs :
        <>[][~Renews(r)]_vars => (ReservationOpen(r) ~> ~ReservationOpen(r))

-----------------------------------------------------------------------------
(* What the documentation says and the code does not keep.                 *)

\* docs/admin-operations.md on "Approve without payment": it cannot bypass
\* tournament capacity.
WaiverWithinCapacity ==
    [][ (\E r \in Regs : WaivePayment(r)) =>
          \/ Unlimited
          \/ Cardinality(Occupants') <= MaxTeams
          \/ Occupants' \subseteq Occupants ]_vars

=============================================================================
