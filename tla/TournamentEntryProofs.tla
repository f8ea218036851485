------------------------ MODULE TournamentEntryProofs ------------------------
(***************************************************************************)
(* TLAPS proofs about TournamentEntry, for every number of entrants, every *)
(* capacity, fee, provider and bound.                                      *)
(*                                                                         *)
(* IInv is a property of each row (RowInv), of each payment (PayInv) and   *)
(* of the requests in flight; it is inductive and implies the types, the   *)
(* queue's positions and the numbered slots.  PaidIsFunded is inductive    *)
(* relative to it; RefundStands, OnlyStaffOverfills, SlotsStayApart,      *)
(* CompleteIsApproved and QueueOrderKept are properties of every step that *)
(* starts where it holds.  All but the first rest on one account of what a *)
(* step may write (HandlesOrderly), shown once for each action.  As long   *)
(* as staff force nothing, entry implements TournamentPlaces.              *)
(***************************************************************************)
EXTENDS TournamentEntry, FiniteSetTheorems, TLAPS

\* A running reservation is a pending one, and in a numbered tournament it has
\* its slot; a waiting row has its position; a hold is a slot of the tournament;
\* nothing is ever reserved, or paid for, where there is no fee.
RowInv(row) ==
    /\ row \in Row
    /\ ~FeeCharged => row.left = Never
    /\ row.left > 0 => row.fee = "pending"
    /\ row.status = "waitlisted" => row.wait > 0
    /\ ~Unlimited => row.hold \in 0 .. MaxTeams
    /\ Provider = "bank_transfer" /\ ~Unlimited /\ row.fee = "pending" /\ row.left > 0
          => row.slot \in 1 .. MaxTeams

\* PayHere's money was always announced by a paid notification, and a PayHere
\* payment has no proof.
PayInv(payment) ==
    /\ payment \in Payment
    /\ Provider = "payhere" =>
         /\ ~payment.proof
         /\ payment.status \in {"paid", "review_required", "refunded"} =>
              \E report \in payment.seen : report.code = "paid"
    /\ payment.status = "refunded" => Provider = "payhere"
    /\ payment.of = NoReg => payment.status = "none"
    /\ payment.of # NoReg => FeeCharged

RegInv == reg \in [Regs -> Row] /\ \A r \in Regs : RowInv(reg[r])
AllPayInv == pay \in [Pays -> Payment] /\ \A p \in Pays : PayInv(pay[p])
RequestInv ==
    /\ form \in [reg: Regs \cup {NoReg}, path: {"resume", "retry"}]
    /\ desk \in [reg: Regs \cup {NoReg}, to: RegStatus, queued: BOOLEAN]
    /\ waived \subseteq Regs
    /\ form.reg # NoReg => FeeCharged

IInv == RegInv /\ AllPayInv /\ RequestInv

-----------------------------------------------------------------------------
(* The helpers.                                                            *)

\* The timers and slots that rows are given have the right type.
LEMMA Timers ==
    /\ HoldTime \in 1 .. LongestTimer /\ ReviewTime \in 1 .. LongestTimer
    /\ LongestTimer \in Nat
    /\ Never \in Never .. LongestTimer /\ Never < 0 /\ Never \in Int
BY EntryAssumption DEF LongestTimer, Never

\* What the steps write into a row is of the row's type.
LEMMA FieldTypes ==
    /\ {"none", "pending", "approved", "rejected", "waitlisted"} \subseteq RegStatus
    /\ {"pending", "verified", "flagged"} \subseteq Verdict
    /\ {Never, HoldTime, ReviewTime} \subseteq Never .. LongestTimer
    /\ 1 .. MaxPosition \subseteq Nat
BY Timers, EntryAssumption DEF RegStatus, Verdict

LEMMA AnySlotType == AnySlot \subseteq Nat
<1>1. Cardinality(Regs) \in Nat
  BY FS_CardinalityType, EntryAssumption
<1> QED BY <1>1, EntryAssumption DEF AnySlot

\* A row that does not exist satisfies the invariant.
LEMMA AbsentRow == RowInv(Absent)
BY Timers, EntryAssumption DEF RowInv, Absent, Row, RegStatus, Verdict

\* Automatic approval changes the status alone, and only from pending.
LEMMA AutoApprovedRow ==
    ASSUME NEW row, RowInv(row)
    PROVE  /\ RowInv(AutoApproved(row))
           /\ AutoApproved(row).fee = row.fee /\ AutoApproved(row).left = row.left
           /\ AutoApproved(row).hold = row.hold
           /\ AutoApproved(row).status # row.status => row.status = "pending"
           /\ AutoApproved(row).status \in {row.status, "approved"}
BY DEF RowInv, AutoApproved, Row, RegStatus

\* Settling a payment keeps the row's invariant and its status, up to approval.
LEMMA SettledRow ==
    ASSUME NEW row, RowInv(row), NEW outcome \in PayStatus,
           outcome = "pending" => Provider = "payhere"
    PROVE  /\ RowInv(Settled(row, outcome))
           /\ Settled(row, outcome).hold = 0
           /\ outcome = "paid" => Settled(row, outcome).fee = "paid"
           /\ outcome \in Reversed => Settled(row, outcome).fee = "unpaid"
           /\ outcome \notin Reversed \cup {"paid", "pending"} => Settled(row, outcome).fee = row.fee
           /\ outcome = "pending" => Settled(row, outcome).fee = "pending"
           /\ outcome \in Reversed => Settled(row, outcome).left = Never
           /\ outcome \notin Reversed \cup {"paid"} => Settled(row, outcome).left = row.left
           /\ outcome # "paid" => Settled(row, outcome).status = row.status
           /\ Settled(row, outcome).status # row.status => row.status = "pending"
           /\ Settled(row, outcome).status \in {row.status, "approved"}
<1> USE Timers, EntryAssumption
<1>1. CASE outcome = "paid"
  <2> DEFINE now == [row EXCEPT !.hold = 0, !.fee = "paid", !.left = Never]
  <2>1. now \in Row /\ now.hold = 0 /\ now.fee = "paid" /\ now.left = Never
        /\ now.status = row.status /\ now.wait = row.wait
    BY DEF RowInv, Row
  <2>2. Settled(row, outcome) = AutoApproved(now)
    BY <1>1 DEF Settled, Reversed
  <2> HIDE DEF now
  <2>3. RowInv(now)
    BY <2>1 DEF RowInv
  <2> QED BY <1>1, <2>1, <2>2, <2>3, AutoApprovedRow DEF Reversed
<1>2. CASE outcome \in Reversed
  <2> DEFINE now == [row EXCEPT !.hold = 0, !.fee = "unpaid", !.left = Never]
  <2>1. now \in Row /\ now.hold = 0 /\ now.fee = "unpaid" /\ now.left = Never
        /\ now.status = row.status /\ now.wait = row.wait
    BY DEF RowInv, Row
  <2>2. Settled(row, outcome) = now
    BY <1>2 DEF Settled, Reversed
  <2> HIDE DEF now
  <2> QED BY <1>2, <2>1, <2>2 DEF RowInv, Reversed
<1>3. CASE outcome = "pending"
  <2> DEFINE now == [row EXCEPT !.hold = 0, !.fee = "pending"]
  <2>1. now \in Row /\ now.hold = 0 /\ now.fee = "pending" /\ now.left = row.left
        /\ now.status = row.status /\ now.wait = row.wait
    BY DEF RowInv, Row
  <2>2. Settled(row, outcome) = now
    BY <1>3 DEF Settled, Reversed
  <2> HIDE DEF now
  <2> QED BY <1>3, <2>1, <2>2 DEF RowInv, Reversed
<1>4. CASE outcome \notin Reversed \cup {"paid", "pending"}
  <2> DEFINE now == [row EXCEPT !.hold = 0]
  <2>1. now \in Row /\ now.hold = 0 /\ now.fee = row.fee /\ now.left = row.left
        /\ now.status = row.status /\ now.wait = row.wait /\ now.slot = row.slot
    BY DEF RowInv, Row
  <2>2. Settled(row, outcome) = now
    BY <1>4 DEF Settled, Reversed
  <2> HIDE DEF now
  <2> QED BY <1>4, <2>1, <2>2 DEF RowInv, Reversed
<1> QED BY <1>1, <1>2, <1>3, <1>4

\* Compaction moves waiting rows up by one, never to position 0.
LEMMA CompactedRows ==
    ASSUME NEW rows \in [Regs -> Row], \A r \in Regs : RowInv(rows[r]), NEW n \in Nat
    PROVE  /\ Compacted(rows, n) \in [Regs -> Row]
           /\ \A r \in Regs : /\ RowInv(Compacted(rows, n)[r])
                              /\ Compacted(rows, n)[r].status = rows[r].status
                              /\ Compacted(rows, n)[r].fee = rows[r].fee
                              /\ Compacted(rows, n)[r].left = rows[r].left
                              /\ Compacted(rows, n)[r].hold = rows[r].hold
BY DEF Compacted, RowInv, Row

\* Writing one good row keeps the table good.
LEMMA OneRow ==
    ASSUME RegInv, NEW r \in Regs, NEW row, RowInv(row), reg' = [reg EXCEPT ![r] = row]
    PROVE  RegInv'
BY DEF RegInv, RowInv

\* Retiring payments keeps them good and never touches a paid or refunded one.
LEMMA RetiredPays ==
    ASSUME AllPayInv, NEW r \in Regs, NEW from \in SUBSET {"created", "pending", "expired", "review_required"},
           NEW to \in {"expired", "cancelled"}
    PROVE  /\ Retired(r, from, to) \in [Pays -> Payment]
           /\ \A p \in Pays :
                /\ PayInv(Retired(r, from, to)[p])
                /\ Retired(r, from, to)[p].of = pay[p].of
                /\ pay[p].status \in {"paid", "refunded"} => Retired(r, from, to)[p] = pay[p]
BY DEF Retired, AllPayInv, PayInv, Payment, PayStatus, Reversed

LEMMA NewPaymentPays ==
    ASSUME AllPayInv, NEW r \in Regs, NewPayment(r), FeeCharged
    PROVE  /\ AllPayInv'
           /\ \A p \in Pays : pay[p].status \in {"paid", "refunded"} => pay'[p] = pay[p]
<1>1. PICK p \in Pays : /\ MayBeNext(p, r)
                        /\ pay' = [Retired(r, Live, "expired") EXCEPT
                                      ![p] = [Unborn EXCEPT !.of = r, !.status = "created"]]
  BY DEF NewPayment
<1>2. PayInv([Unborn EXCEPT !.of = r, !.status = "created"])
  BY EntryAssumption DEF Unborn, PayInv, Payment, PayStatus, Reversed
<1>3. Live \in SUBSET {"created", "pending", "expired", "review_required"}
  BY DEF Live
<1> QED BY <1>1, <1>2, <1>3, RetiredPays DEF AllPayInv, PayInv, MayBeNext

LEMMA OnePay ==
    ASSUME AllPayInv, NEW p \in Pays, NEW payment, PayInv(payment), pay' = [pay EXCEPT ![p] = payment]
    PROVE  AllPayInv'
BY DEF AllPayInv, PayInv

LEMMA SameRequests ==
    ASSUME RequestInv, KeepWaivers \/ UNCHANGED waived, UNCHANGED requests
    PROVE  RequestInv'
BY DEF RequestInv, KeepWaivers, requests

\* The slots that are quoted and allocated are slots of the tournament.
LEMMA SlotRange ==
    ASSUME RegInv, NEW r \in Regs, NEW s \in AnySlot
    PROVE  /\ s \in Nat
           /\ IsLowestFree(s, r) /\ ~Unlimited => s \in 1 .. MaxTeams
           /\ IsQuotedSlot(s, r) /\ ~Unlimited /\ Provider = "bank_transfer" => s \in 1 .. MaxTeams
BY AnySlotType, EntryAssumption DEF IsLowestFree, LastSlot, IsQuotedSlot, RegInv, RowInv, Row

-----------------------------------------------------------------------------
(* The entrant's steps keep the invariant.                                 *)

LEMMA RegisterStep ==
    ASSUME IInv, NEW r \in Regs, Register(r)
    PROVE  IInv'
<1>1. RequestInv'
  BY SameRequests DEF IInv, Register
<1>2. PICK answers \in {"open", "accepted"} :
        LET row == [Absent EXCEPT !.invites = answers,
                       !.verif = IF answers = "accepted" THEN "verified" ELSE "pending"]
        IN Admit(r, row) \/ Enqueue(r, row)
  BY DEF Register
<1> DEFINE row == [Absent EXCEPT !.invites = answers,
                      !.verif = IF answers = "accepted" THEN "verified" ELSE "pending"]
<1>3. RowInv(row) /\ row.hold = 0 /\ row.left = Never /\ row.fee = "unpaid" /\ row.status = "none"
  BY AbsentRow, FieldTypes DEF Absent, RowInv, Row
<1>4. Admit(r, row) \/ Enqueue(r, row)
  BY <1>2
<1> HIDE DEF row
<1>5. CASE Admit(r, row)
  <2>1. AllPayInv'
    BY <1>5, NewPaymentPays DEF Admit, PaysOnEntry, IInv, AllPayInv, PayInv
  <2>2. PICK s \in AnySlot :
          /\ IF PaysOnEntry THEN IsQuotedSlot(s, r) ELSE s = 0
          /\ reg' = [reg EXCEPT ![r] = AutoApproved([row EXCEPT
                 !.status = "pending",
                 !.fee = IF PaysOnEntry THEN "pending"
                         ELSE IF FeeCharged THEN "unpaid" ELSE "paid",
                 !.left = IF PaysOnEntry THEN HoldTime ELSE Never,
                 !.slot = s])]
    BY <1>5 DEF Admit
  <2> DEFINE now == [row EXCEPT
                 !.status = "pending",
                 !.fee = IF PaysOnEntry THEN "pending"
                         ELSE IF FeeCharged THEN "unpaid" ELSE "paid",
                 !.left = IF PaysOnEntry THEN HoldTime ELSE Never,
                 !.slot = s]
  <2>3. s \in Nat
    BY SlotRange DEF IInv
  <2>4. /\ now \in Row /\ now.status = "pending" /\ now.hold = row.hold /\ now.slot = s
        /\ now.fee = IF PaysOnEntry THEN "pending" ELSE IF FeeCharged THEN "unpaid" ELSE "paid"
        /\ now.left = IF PaysOnEntry THEN HoldTime ELSE Never
    <3>1. /\ "pending" \in RegStatus
          /\ (IF PaysOnEntry THEN HoldTime ELSE Never) \in Never .. LongestTimer
      BY FieldTypes
    <3> QED BY <1>3, <2>3, <3>1 DEF RowInv, Row
  <2>5. reg' = [reg EXCEPT ![r] = AutoApproved(now)]
    BY <2>2
  <2> HIDE DEF now
  <2>6. RowInv(now)
    BY <1>3, <2>2, <2>4, SlotRange, Timers, EntryAssumption DEF RowInv, IInv, PaysOnEntry
  <2>7. RegInv'
    BY <2>5, <2>6, AutoApprovedRow, OneRow DEF IInv
  <2> QED BY <1>1, <2>1, <2>7 DEF IInv
<1>6. CASE Enqueue(r, row)
  <2>1. AllPayInv'
    BY <1>6 DEF Enqueue, IInv, AllPayInv
  <2>2. PICK n \in 1 .. MaxPosition :
          reg' = [reg EXCEPT ![r] = [row EXCEPT !.status = "waitlisted", !.wait = n]]
    BY <1>6 DEF Enqueue
  <2>3. RowInv([row EXCEPT !.status = "waitlisted", !.wait = n])
    <3>1. "waitlisted" \in RegStatus /\ n \in Nat /\ n > 0
      BY <2>2, FieldTypes
    <3>2. [row EXCEPT !.status = "waitlisted", !.wait = n] \in Row
      BY <1>3, <3>1 DEF RowInv, Row
    <3> QED BY <1>3, <3>1, <3>2 DEF RowInv, Row
  <2>4. RegInv'
    BY <2>2, <2>3, OneRow DEF IInv
  <2> QED BY <1>1, <2>1, <2>4 DEF IInv
<1> QED BY <1>4, <1>5, <1>6

LEMMA LoadEntryStep ==
    ASSUME IInv, NEW r \in Regs, NEW path \in {"resume", "retry"}, LoadEntry(r, path)
    PROVE  IInv'
BY DEF LoadEntry, IInv, RegInv, AllPayInv, RequestInv

LEMMA RosterVerdictType ==
    ASSUME NEW row, RowInv(row)
    PROVE  RosterVerdict(row) \in Verdict
BY DEF RosterVerdict, RowInv, Row, Verdict

LEMMA ResumePaymentStep ==
    ASSUME IInv, NEW r \in Regs, ResumePayment(r)
    PROVE  IInv'
<1>1. RequestInv'
  BY DEF ResumePayment, KeepWaivers, IInv, RequestInv, NoForm
<1>2. FeeCharged /\ AllPayInv'
  BY NewPaymentPays, EntryAssumption DEF ResumePayment, IInv, RequestInv
<1>3. PICK s \in AnySlot :
        /\ IsQuotedSlot(s, r)
        /\ reg' = [reg EXCEPT ![r] = [@ EXCEPT
               !.fee = "pending", !.verif = RosterVerdict(reg[r]),
               !.left = HoldTime, !.slot = s, !.hold = 0]]
  BY DEF ResumePayment
<1> DEFINE now == [reg[r] EXCEPT !.fee = "pending", !.verif = RosterVerdict(reg[r]),
                                 !.left = HoldTime, !.slot = s, !.hold = 0]
<1>4. RowInv(reg[r]) /\ reg' = [reg EXCEPT ![r] = now] /\ s \in Nat
  BY <1>3, SlotRange DEF IInv, RegInv
<1>5. /\ now \in Row /\ now.fee = "pending" /\ now.slot = s /\ now.hold = 0
      /\ now.status = reg[r].status /\ now.wait = reg[r].wait
  <2>1. HoldTime \in Never .. LongestTimer /\ RosterVerdict(reg[r]) \in Verdict
    BY <1>4, FieldTypes, RosterVerdictType
  <2> QED BY <1>4, <2>1 DEF RowInv, Row
<1> HIDE DEF now
<1>6. RowInv(now)
  BY <1>2, <1>3, <1>4, <1>5, SlotRange, Timers, EntryAssumption DEF RowInv, IInv
<1>7. RegInv'
  BY <1>4, <1>6, OneRow DEF IInv
<1> QED BY <1>1, <1>2, <1>7 DEF IInv

LEMMA RetryEntryStep ==
    ASSUME IInv, NEW r \in Regs, RetryEntry(r)
    PROVE  IInv'
<1>1. RequestInv'
  BY DEF RetryEntry, KeepWaivers, IInv, RequestInv, NoForm
<1>2. FeeCharged /\ AllPayInv'
  BY NewPaymentPays, EntryAssumption DEF RetryEntry, IInv, RequestInv
<1>3. PICK s \in AnySlot, answers \in {"open", "accepted"} :
        /\ IsQuotedSlot(s, r)
        /\ reg' = [reg EXCEPT ![r] = [@ EXCEPT
                !.status = "pending", !.fee = "pending", !.left = HoldTime,
                !.slot = s, !.hold = 0, !.invites = answers,
                !.verif = IF TeamEntry /\ answers = "accepted" THEN "verified" ELSE "pending"]]
  BY DEF RetryEntry
<1> DEFINE now == [reg[r] EXCEPT
                !.status = "pending", !.fee = "pending", !.left = HoldTime,
                !.slot = s, !.hold = 0, !.invites = answers,
                !.verif = IF TeamEntry /\ answers = "accepted" THEN "verified" ELSE "pending"]
<1>4. RowInv(reg[r]) /\ reg' = [reg EXCEPT ![r] = now] /\ s \in Nat
  BY <1>3, SlotRange DEF IInv, RegInv
<1>5. now \in Row /\ now.fee = "pending" /\ now.slot = s /\ now.hold = 0 /\ now.status = "pending"
  <2>1. /\ HoldTime \in Never .. LongestTimer /\ "pending" \in RegStatus
        /\ (IF TeamEntry /\ answers = "accepted" THEN "verified" ELSE "pending") \in Verdict
        /\ answers \in {"open", "accepted", "declined"}
    BY FieldTypes
  <2> QED BY <1>4, <2>1 DEF RowInv, Row
<1> HIDE DEF now
<1>6. RowInv(now)
  BY <1>2, <1>3, <1>4, <1>5, SlotRange, Timers, EntryAssumption DEF RowInv, IInv
<1>7. RegInv'
  BY <1>4, <1>6, OneRow DEF IInv
<1> QED BY <1>1, <1>2, <1>7 DEF IInv

LEMMA RetryIntoWaitlistStep ==
    ASSUME IInv, NEW r \in Regs, RetryIntoWaitlist(r)
    PROVE  IInv'
<1>1. RequestInv' /\ AllPayInv'
  BY DEF RetryIntoWaitlist, KeepWaivers, IInv, RequestInv, AllPayInv, NoForm
<1>2. PICK n \in 1 .. MaxPosition :
        reg' = [reg EXCEPT ![r] = [@ EXCEPT
                !.status = "waitlisted", !.fee = "unpaid", !.left = Never,
                !.slot = 0, !.hold = 0, !.wait = n]]
  BY DEF RetryIntoWaitlist
<1>3. RowInv([reg[r] EXCEPT !.status = "waitlisted", !.fee = "unpaid", !.left = Never,
                            !.slot = 0, !.hold = 0, !.wait = n])
  <2>1. Never \in Never .. LongestTimer /\ "waitlisted" \in RegStatus /\ n \in Nat /\ n > 0
    BY FieldTypes
  <2>2. reg[r] \in Row
    BY DEF IInv, RegInv
  <2> DEFINE now == [reg[r] EXCEPT !.status = "waitlisted", !.fee = "unpaid", !.left = Never,
                                   !.slot = 0, !.hold = 0, !.wait = n]
  <2>3. now \in Row /\ now.left = Never /\ now.hold = 0 /\ now.wait = n
    BY <2>1, <2>2 DEF Row
  <2> HIDE DEF now
  <2>4. RowInv(now)
    BY <2>1, <2>3, Timers, EntryAssumption DEF RowInv
  <2> QED BY <2>4 DEF now
<1>4. RegInv'
  BY <1>2, <1>3, OneRow DEF IInv
<1> QED BY <1>1, <1>4 DEF IInv

\* Deleting a row, by its entrant or by staff.
LEMMA EraseStep ==
    ASSUME IInv, NEW r \in Regs, Erase(r)
    PROVE  IInv'
<1>1. RegInv'
  BY AbsentRow, OneRow DEF Erase, IInv
<1>2. PayInv(Unborn)
  BY EntryAssumption DEF PayInv, Unborn, Payment, PayStatus, Reversed
<1>3. AllPayInv'
  BY <1>2 DEF Erase, IInv, AllPayInv, PayInv
<1>4. RequestInv'
  BY EntryAssumption DEF Erase, IInv, RequestInv, KeepWaivers, NoForm, NoDesk, RegStatus
<1> QED BY <1>1, <1>3, <1>4 DEF IInv

-----------------------------------------------------------------------------
(* The payments' steps keep the invariant.                                 *)

LEMMA SettledTable ==
    ASSUME RegInv, NEW r \in Regs, NEW outcome \in PayStatus,
           outcome = "pending" => Provider = "payhere",
           reg' = [reg EXCEPT ![r] = Settled(@, outcome)]
    PROVE  RegInv'
BY SettledRow, OneRow DEF RegInv

Codes == {"paid", "pending", "cancelled", "failed", "charged_back"}

LEMMA ReportCode == \A report \in Reports : report.code \in Codes
BY EntryAssumption DEF Codes

\* A notification moves a payment to a status, and to one that only money can
\* explain only if it is a paid notification.
LEMMA NotifiedStatusType ==
    ASSUME AllPayInv, NEW p \in Pays, NEW code \in Codes, NEW conflict \in BOOLEAN
    PROVE  /\ NotifiedStatus(p, code, conflict) \in PayStatus
           /\ \/ NotifiedStatus(p, code, conflict) = pay[p].status
              \/ NotifiedStatus(p, code, conflict) \notin {"paid", "review_required", "refunded"}
              \/ code = "paid"
           /\ NotifiedStatus(p, code, conflict) = "refunded" => pay[p].status = "refunded"
           /\ NotifiedStatus(p, code, conflict) = "paid" =>
                 Payable(p) \/ pay[p].status = "paid"
<1>1. pay[p].status \in PayStatus
  BY DEF AllPayInv, PayInv, Payment
<1>2. code \in {"paid", "pending", "cancelled", "failed", "charged_back"}
  BY DEF Codes
<1>3. CASE code = "paid"
  <2>1. NotifiedStatus(p, code, conflict) = IF Payable(p) /\ ~conflict THEN "paid" ELSE "review_required"
    BY <1>3 DEF NotifiedStatus
  <2> QED BY <1>3, <2>1 DEF PayStatus
<1>4. CASE code # "paid" /\ pay[p].status = "paid" /\ code # "charged_back"
  <2>1. NotifiedStatus(p, code, conflict) = "paid"
    BY <1>4 DEF NotifiedStatus, TerminalFailure, Reversed
  <2> QED BY <1>4, <2>1 DEF PayStatus
<1>5. CASE code # "paid" /\ pay[p].status \in TerminalFailure
  <2>1. NotifiedStatus(p, code, conflict) = pay[p].status
    BY <1>5 DEF NotifiedStatus, TerminalFailure, Reversed
  <2> QED BY <1>1, <2>1, <1>5 DEF TerminalFailure, Reversed
<1>6. CASE /\ code # "paid" /\ ~(pay[p].status = "paid" /\ code # "charged_back")
           /\ pay[p].status \notin TerminalFailure
  <2>1. NotifiedStatus(p, code, conflict) = code
    BY <1>6 DEF NotifiedStatus
  <2> QED BY <1>2, <1>6, <2>1 DEF PayStatus, Reversed
<1> QED BY <1>3, <1>4, <1>5, <1>6

LEMMA NotifyStep ==
    ASSUME IInv, NEW p \in Pays, NEW report \in Reports, Notify(p, report)
    PROVE  IInv'
<1>1. RequestInv'
  BY SameRequests DEF IInv, Notify
<1>2. PICK conflict \in {FALSE, TeamEntry} :
        /\ pay' = [pay EXCEPT ![p] = [pay[p] EXCEPT
                      !.status = NotifiedStatus(p, report.code, conflict), !.seen = pay[p].seen \cup {report}]]
        /\ reg' = IF NotifiedStatus(p, report.code, conflict) = pay[p].status THEN reg
                  ELSE [reg EXCEPT ![pay[p].of] = Settled(@, NotifiedStatus(p, report.code, conflict))]
  BY DEF Notify
<1> DEFINE applied == NotifiedStatus(p, report.code, conflict)
<1>3. /\ applied \in PayStatus
      /\ applied = pay[p].status \/ applied \notin {"paid", "review_required", "refunded"} \/ report.code = "paid"
  BY NotifiedStatusType, ReportCode, EntryAssumption DEF IInv
<1>4. pay[p].of \in Regs /\ Provider = "payhere" /\ PayInv(pay[p])
  BY DEF Notify, IInv, AllPayInv, PayInv, Payment
<1> HIDE DEF applied
<1>5. PayInv([pay[p] EXCEPT !.status = applied, !.seen = pay[p].seen \cup {report}])
  BY <1>3, <1>4, EntryAssumption DEF PayInv, Payment
<1>6. AllPayInv'
  <2>1. pay' = [pay EXCEPT ![p] = [pay[p] EXCEPT !.status = applied, !.seen = pay[p].seen \cup {report}]]
    BY <1>2 DEF applied
  <2> QED BY <1>5, <2>1, OnePay DEF IInv
<1>7. RegInv'
  BY <1>2, <1>3, <1>4, SettledTable DEF applied, IInv, RegInv
<1> QED BY <1>1, <1>6, <1>7 DEF IInv

\* Staff accept or refund money, or approve a proof.
LEMMA ReviewStep ==
    ASSUME IInv, NEW p \in Pays, AcceptPayHere(p) \/ MarkRefunded(p) \/ ApproveBankTransfer(p)
    PROVE  IInv'
<1>1. RequestInv'
  BY SameRequests DEF IInv, AcceptPayHere, MarkRefunded, ApproveBankTransfer
<1>2. PICK outcome \in {"paid", "refunded"} :
        /\ pay' = [pay EXCEPT ![p].status = outcome]
        /\ reg' = [reg EXCEPT ![pay[p].of] = Settled(@, outcome)]
        /\ outcome = "refunded" => Provider = "payhere"
  BY DEF AcceptPayHere, MarkRefunded, ApproveBankTransfer
<1>3. pay[p].of \in Regs /\ PayInv(pay[p]) /\ pay[p].status = "review_required"
  BY DEF AcceptPayHere, MarkRefunded, ApproveBankTransfer, AwaitsReview, IInv, AllPayInv, PayInv, Payment
<1>4. outcome \in PayStatus
  BY DEF PayStatus, Reversed
<1>5. PayInv([pay[p] EXCEPT !.status = outcome])
  BY <1>2, <1>3, <1>4 DEF PayInv, Payment
<1>6. AllPayInv'
  BY <1>2, <1>5, OnePay DEF IInv
<1>7. RegInv'
  BY <1>2, <1>3, <1>4, SettledTable DEF IInv
<1> QED BY <1>1, <1>6, <1>7 DEF IInv

LEMMA SubmitBankTransferProofStep ==
    ASSUME IInv, NEW p \in Pays, SubmitBankTransferProof(p)
    PROVE  IInv'
<1>1. RequestInv'
  BY SameRequests DEF IInv, SubmitBankTransferProof
<1>2. pay[p].of \in Regs /\ PayInv(pay[p]) /\ FeeCharged /\ Provider = "bank_transfer"
  BY DEF SubmitBankTransferProof, IInv, AllPayInv, PayInv, Payment
<1> DEFINE r == pay[p].of
           now == [reg[r] EXCEPT !.fee = "pending", !.left = ReviewTime]
<1>3. RowInv(reg[r]) /\ reg[r].left > 0
  BY <1>2 DEF SubmitBankTransferProof, IInv, RegInv
<1>4. /\ now \in Row /\ now.slot = reg[r].slot /\ now.hold = reg[r].hold
      /\ now.status = reg[r].status /\ now.wait = reg[r].wait /\ now.fee = "pending"
  BY <1>3, FieldTypes DEF RowInv, Row
<1>5. reg' = [reg EXCEPT ![r] = now]
  BY DEF SubmitBankTransferProof
<1> HIDE DEF now
<1>6. RowInv(now)
  BY <1>2, <1>3, <1>4 DEF RowInv
<1>7. RegInv'
  BY <1>2, <1>5, <1>6, OneRow DEF IInv
<1>8. PayInv([pay[p] EXCEPT !.status = "review_required", !.proof = TRUE])
  BY <1>2, EntryAssumption DEF PayInv, Payment, PayStatus, Reversed
<1>9. AllPayInv'
  BY <1>8, OnePay DEF SubmitBankTransferProof, IInv
<1> QED BY <1>1, <1>7, <1>9 DEF IInv

LEMMA RejectBankTransferStep ==
    ASSUME IInv, NEW p \in Pays, RejectBankTransfer(p)
    PROVE  IInv'
<1>1. RequestInv'
  BY SameRequests DEF IInv, RejectBankTransfer
<1>2. pay[p].of \in Regs /\ PayInv(pay[p])
  BY DEF RejectBankTransfer, AwaitsReview, IInv, AllPayInv, PayInv, Payment
<1> DEFINE r == pay[p].of
           now == [reg[r] EXCEPT !.fee = "unpaid", !.left = Never, !.slot = 0, !.hold = 0]
<1>3. RowInv(reg[r])
  BY <1>2 DEF IInv, RegInv
<1>4. /\ now \in Row /\ now.left = Never /\ now.hold = 0
      /\ now.status = reg[r].status /\ now.wait = reg[r].wait
  BY <1>3, FieldTypes DEF RowInv, Row
<1>5. reg' = [reg EXCEPT ![r] = now]
  BY DEF RejectBankTransfer
<1> HIDE DEF now
<1>6. RowInv(now)
  BY <1>3, <1>4, Timers, EntryAssumption DEF RowInv
<1>7. RegInv'
  BY <1>2, <1>5, <1>6, OneRow DEF IInv
<1>8. PayInv([pay[p] EXCEPT !.status = "failed"])
  <2>1. "failed" \in PayStatus
    BY DEF PayStatus, Reversed
  <2>2. pay[p].of # NoReg
    BY <1>2, EntryAssumption
  <2> QED BY <1>2, <2>1, <2>2 DEF PayInv, Payment
<1>9. AllPayInv'
  BY <1>8, OnePay DEF RejectBankTransfer, IInv
<1> QED BY <1>1, <1>7, <1>9 DEF IInv

LEMMA ReopenExpiredPaymentStep ==
    ASSUME IInv, NEW p \in Pays, ReopenExpiredPayment(p)
    PROVE  IInv'
<1>1. RequestInv'
  BY SameRequests DEF IInv, ReopenExpiredPayment
<1> DEFINE r == pay[p].of
<1>2. r \in Regs /\ PayInv(pay[p]) /\ FeeCharged
  BY DEF ReopenExpiredPayment, IInv, AllPayInv, PayInv, Payment
<1>3. PICK s \in AnySlot :
         /\ IF Provider = "bank_transfer" THEN IsLowestFree(s, r) ELSE s = 0
         /\ reg' = [reg EXCEPT ![r] = [@ EXCEPT !.fee = "pending", !.slot = s,
                        !.left = IF pay[p].proof THEN ReviewTime ELSE HoldTime]]
  BY DEF ReopenExpiredPayment
<1> DEFINE now == [reg[r] EXCEPT !.fee = "pending", !.slot = s,
                                 !.left = IF pay[p].proof THEN ReviewTime ELSE HoldTime]
<1>4. RowInv(reg[r]) /\ s \in Nat /\ reg' = [reg EXCEPT ![r] = now]
  BY <1>2, <1>3, SlotRange DEF IInv, RegInv
<1>5. /\ now \in Row /\ now.slot = s /\ now.hold = reg[r].hold /\ now.fee = "pending"
      /\ now.status = reg[r].status /\ now.wait = reg[r].wait
  <2>1. (IF pay[p].proof THEN ReviewTime ELSE HoldTime) \in Never .. LongestTimer
    BY FieldTypes
  <2> QED BY <1>4, <2>1 DEF RowInv, Row
<1> HIDE DEF now
<1>6. RowInv(now)
  BY <1>2, <1>3, <1>4, <1>5, SlotRange, EntryAssumption DEF RowInv, IInv
<1>7. RegInv'
  BY <1>2, <1>4, <1>6, OneRow DEF IInv
<1> DEFINE to == IF pay[p].proof THEN "review_required" ELSE "pending"
<1>8. PayInv([pay[p] EXCEPT !.status = to])
  <2>1. to \in PayStatus /\ to # "refunded" /\ to # "paid" /\ (to = "review_required" => pay[p].proof)
    BY DEF PayStatus, Reversed
  <2> HIDE DEF to
  <2>2. r # NoReg
    BY <1>2, EntryAssumption
  <2> QED BY <1>2, <2>1, <2>2 DEF PayInv, Payment
<1>9. AllPayInv'
  BY <1>8, OnePay DEF ReopenExpiredPayment, IInv
<1> QED BY <1>1, <1>7, <1>9 DEF IInv

-----------------------------------------------------------------------------
(* The steps of staff, roster, clock and maintenance keep the invariant.   *)

LEMMA LoadForStatusStep ==
    ASSUME IInv, NEW r \in Regs, NEW to \in StaffTargets, LoadForStatus(r, to)
    PROVE  IInv'
<1>1. to \in RegStatus
  BY EntryAssumption DEF RegStatus
<1> QED BY <1>1 DEF LoadForStatus, IInv, RegInv, AllPayInv, RequestInv

\* A decision sets the status and touches no slot, timer, fee or position.
LEMMA DecidedRow ==
    ASSUME NEW row, RowInv(row), NEW to \in RegStatus, NEW now \in Decided(row, to)
    PROVE  /\ now \in Row /\ now.status = to
           /\ now.fee = row.fee /\ now.left = row.left /\ now.slot = row.slot
           /\ now.wait = row.wait /\ now.hold = row.hold
<1>1. {row.verif} \cup StaffVerdicts \subseteq Verdict
  BY EntryAssumption DEF RowInv, Row, Verdict
<1>2. CASE to = "approved"
  <2> DEFINE answers == IF row.invites = "open" THEN "accepted" ELSE row.invites
             verdict == IF row.invites = "declined" THEN "flagged" ELSE "verified"
  <2>1. now = [row EXCEPT !.status = to, !.invites = answers, !.verif = verdict]
    BY <1>2 DEF Decided, RowInv, Row
  <2>2. answers \in {"open", "accepted", "declined"} /\ verdict \in Verdict
    BY DEF RowInv, Row, Verdict
  <2> HIDE DEF answers, verdict
  <2> QED BY <2>1, <2>2 DEF RowInv, Row
<1>3. CASE to # "approved"
  <2>1. PICK v \in {row.verif} \cup StaffVerdicts : now = [row EXCEPT !.status = to, !.verif = v]
    BY <1>3 DEF Decided
  <2>2. v \in Verdict
    BY <1>1
  <2> QED BY <2>1, <2>2 DEF RowInv, Row
<1> QED BY <1>2, <1>3

LEMMA NoRequests ==
    /\ NoForm \in [reg: Regs \cup {NoReg}, path: {"resume", "retry"}] /\ NoForm.reg = NoReg
    /\ NoDesk \in [reg: Regs \cup {NoReg}, to: RegStatus, queued: BOOLEAN]
BY FieldTypes DEF NoForm, NoDesk

\* Finishing a staff status update.
LEMMA DeskDone ==
    ASSUME RequestInv, KeepWaivers, desk' = NoDesk \/ UNCHANGED desk, UNCHANGED form
    PROVE  RequestInv'
BY NoRequests DEF RequestInv, KeepWaivers

LEMMA StaffWaitlistsStep ==
    ASSUME IInv, NEW r \in Regs, StaffWaitlists(r)
    PROVE  IInv'
<1>1. RequestInv' /\ AllPayInv'
  BY DeskDone DEF StaffWaitlists, IInv, AllPayInv
<1>2. PICK n \in 1 .. MaxPosition, row \in Decided(reg[r], "waitlisted") :
        reg' = [reg EXCEPT ![r] = [row EXCEPT !.wait = n, !.slot = 0, !.left = Never, !.hold = 0]]
  BY DEF StaffWaitlists
<1>3. /\ row \in Row /\ Never \in Never .. LongestTimer
      /\ n \in Nat /\ n > 0
  BY DecidedRow, FieldTypes DEF IInv, RegInv
<1> DEFINE now == [row EXCEPT !.wait = n, !.slot = 0, !.left = Never, !.hold = 0]
<1>4. now \in Row /\ now.wait = n /\ now.left = Never /\ now.hold = 0
  BY <1>3 DEF Row
<1>5. reg' = [reg EXCEPT ![r] = now]
  BY <1>2
<1> HIDE DEF now
<1>6. RowInv(now)
  BY <1>3, <1>4, Timers, EntryAssumption DEF RowInv
<1> QED BY <1>1, <1>5, <1>6, OneRow DEF IInv

\* One row written and the queue compacted behind it.
LEMMA CompactedTable ==
    ASSUME RegInv, NEW r \in Regs, NEW row, RowInv(row), NEW n \in Nat,
           reg' = Compacted([reg EXCEPT ![r] = row], n)
    PROVE  RegInv'
<1>1. /\ [reg EXCEPT ![r] = row] \in [Regs -> Row]
      /\ \A q \in Regs : RowInv([reg EXCEPT ![r] = row][q])
  BY DEF RegInv, RowInv
<1> QED BY <1>1, CompactedRows DEF RegInv

LEMMA StaffPromotesStep ==
    ASSUME IInv, NEW r \in Regs, StaffPromotes(r)
    PROVE  IInv'
<1>1. RequestInv' /\ AllPayInv'
  BY DeskDone DEF StaffPromotes, IInv, AllPayInv
<1>2. PICK s \in AnySlot, row \in Decided(reg[r], desk.to) :
         /\ IsLowestFree(s, r)
         /\ reg' = Compacted([reg EXCEPT ![r] = [row EXCEPT !.slot = s, !.wait = 0,
                        !.fee = IF FeeCharged THEN @ ELSE "paid"]], reg[r].wait)
  BY DEF StaffPromotes
<1>3. /\ RowInv(reg[r]) /\ desk.to \in {"pending", "approved"}
      /\ s \in Nat /\ reg[r].wait \in Nat
  BY SlotRange DEF IInv, RegInv, StaffPromotes, RowInv, Row
<1>4. /\ row \in Row /\ row.status = desk.to
      /\ row.fee = reg[r].fee /\ row.left = reg[r].left /\ row.hold = reg[r].hold
  BY <1>3, DecidedRow, FieldTypes
<1> DEFINE now == [row EXCEPT !.slot = s, !.wait = 0, !.fee = IF FeeCharged THEN @ ELSE "paid"]
<1>5. /\ now \in Row /\ now.status = desk.to /\ now.slot = s /\ now.hold = row.hold
      /\ now.left = row.left /\ now.fee = IF FeeCharged THEN row.fee ELSE "paid"
  BY <1>3, <1>4 DEF Row
<1>6. reg' = Compacted([reg EXCEPT ![r] = now], reg[r].wait)
  BY <1>2
<1> HIDE DEF now
<1>7. RowInv(now)
  BY <1>2, <1>3, <1>4, <1>5, SlotRange, Timers DEF RowInv, IInv
<1> QED BY <1>1, <1>3, <1>6, <1>7, CompactedTable DEF IInv

LEMMA StaffRejectsFromWaitlistStep ==
    ASSUME IInv, NEW r \in Regs, StaffRejectsFromWaitlist(r)
    PROVE  IInv'
<1>1. RequestInv' /\ AllPayInv'
  BY DeskDone DEF StaffRejectsFromWaitlist, IInv, AllPayInv
<1>2. PICK row \in Decided(reg[r], "rejected") :
         reg' = Compacted([reg EXCEPT ![r] = [row EXCEPT !.wait = 0]], reg[r].wait)
  BY DEF StaffRejectsFromWaitlist
<1>3. RowInv(reg[r]) /\ reg[r].wait \in Nat
  BY DEF IInv, RegInv, RowInv, Row
<1>4. /\ row \in Row /\ row.status = "rejected" /\ row.slot = reg[r].slot
      /\ row.fee = reg[r].fee /\ row.left = reg[r].left /\ row.hold = reg[r].hold
  BY <1>3, DecidedRow, FieldTypes
<1>5. RowInv([row EXCEPT !.wait = 0])
  BY <1>3, <1>4 DEF RowInv, Row
<1> QED BY <1>1, <1>2, <1>3, <1>5, CompactedTable DEF IInv

LEMMA StaffSetsStatusStep ==
    ASSUME IInv, NEW r \in Regs, StaffSetsStatus(r)
    PROVE  IInv'
<1>1. RequestInv' /\ AllPayInv'
  BY DeskDone DEF StaffSetsStatus, IInv, AllPayInv
<1>2. PICK row \in Decided(reg[r], desk.to) : reg' = [reg EXCEPT ![r] = row]
  BY DEF StaffSetsStatus
<1>3. RowInv(reg[r]) /\ desk.to \in RegStatus /\ desk.to # "waitlisted"
  BY DEF IInv, RegInv, RequestInv, StaffSetsStatus
<1>4. RowInv(row)
  BY <1>3, DecidedRow DEF RowInv
<1> QED BY <1>1, <1>2, <1>4, OneRow DEF IInv

LEMMA StaffVerifiesStep ==
    ASSUME IInv, NEW r \in Regs, NEW verdict \in StaffVerdicts, StaffVerifies(r, verdict)
    PROVE  IInv'
<1>1. RequestInv' /\ AllPayInv'
  BY SameRequests DEF StaffVerifies, IInv, AllPayInv
<1> DEFINE row == [reg[r] EXCEPT !.verif = verdict]
<1>2. RowInv(row)
  <2>1. verdict \in Verdict
    BY EntryAssumption DEF Verdict
  <2> QED BY <2>1 DEF IInv, RegInv, RowInv, Row
<1>3. reg' = [reg EXCEPT ![r] = row] \/ reg' = [reg EXCEPT ![r] = AutoApproved(row)]
  BY DEF StaffVerifies
<1> HIDE DEF row
<1> QED BY <1>1, <1>2, <1>3, AutoApprovedRow, OneRow DEF IInv

LEMMA WaivePaymentStep ==
    ASSUME IInv, NEW r \in Regs, WaivePayment(r)
    PROVE  IInv'
<1>1. RequestInv'
  BY DEF WaivePayment, IInv, RequestInv, requests
<1>2. AllPayInv'
  <2>1. pay' = Retired(r, {"created", "pending", "expired", "review_required"}, "cancelled")
    BY DEF WaivePayment
  <2> QED BY <2>1, RetiredPays DEF IInv, AllPayInv
<1> DEFINE queued == reg[r].status = "waitlisted"
<1>3. PICK s \in AnySlot, row \in Decided(reg[r], "approved") :
        reg' = Compacted([reg EXCEPT ![r] = [row EXCEPT !.fee = "paid", !.slot = s, !.left = Never,
                              !.hold = 0, !.wait = IF queued THEN 0 ELSE @]],
                         IF queued THEN reg[r].wait ELSE 0)
  BY DEF WaivePayment
<1>4. RowInv(reg[r]) /\ reg[r].wait \in Nat /\ s \in Nat /\ Never \in Never .. LongestTimer
  BY SlotRange, FieldTypes DEF IInv, RegInv, RowInv, Row
<1>5. row \in Row /\ row.status = "approved"
  BY <1>4, DecidedRow, FieldTypes
<1> HIDE DEF queued
<1> DEFINE now == [row EXCEPT !.fee = "paid", !.slot = s, !.left = Never,
                              !.hold = 0, !.wait = IF queued THEN 0 ELSE @]
           n == IF queued THEN reg[r].wait ELSE 0
<1>6. now \in Row /\ now.status = "approved" /\ now.fee = "paid" /\ now.left = Never /\ now.hold = 0
  BY <1>4, <1>5 DEF Row
<1>7. n \in Nat
  BY <1>4
<1>8. reg' = Compacted([reg EXCEPT ![r] = now], n)
  BY <1>3
<1> HIDE DEF now, n
<1>9. RowInv(now)
  BY <1>6, Timers, EntryAssumption DEF RowInv
<1> QED BY <1>1, <1>2, <1>7, <1>8, <1>9, CompactedTable DEF IInv

LEMMA HoldStep ==
    ASSUME IInv, NEW r \in Regs, ReserveAdminSlot(r) \/ ReleaseAdminSlot(r)
    PROVE  IInv'
<1>1. RequestInv' /\ AllPayInv'
  BY SameRequests DEF ReserveAdminSlot, ReleaseAdminSlot, IInv, AllPayInv
<1>2. PICK s \in Nat : reg' = [reg EXCEPT ![r].hold = s] /\ (~Unlimited => s \in 0 .. MaxTeams)
  BY SlotRange, EntryAssumption DEF ReserveAdminSlot, ReleaseAdminSlot, IInv
<1>3. RowInv([reg[r] EXCEPT !.hold = s])
  BY <1>2 DEF IInv, RegInv, RowInv, Row
<1> QED BY <1>1, <1>2, <1>3, OneRow DEF IInv

LEMMA RosterAnswersStep ==
    ASSUME IInv, NEW r \in Regs, NEW answers \in {"open", "accepted", "declined"}, RosterAnswers(r, answers)
    PROVE  IInv'
<1>1. RequestInv' /\ AllPayInv'
  BY SameRequests DEF RosterAnswers, IInv, AllPayInv
<1> DEFINE row == [reg[r] EXCEPT !.invites = answers]
           verdict == IF answers = "open" THEN "pending" ELSE RosterVerdict(row)
<1>2. RowInv(row)
  BY DEF IInv, RegInv, RowInv, Row
<1>3. verdict \in Verdict
  BY <1>2, RosterVerdictType, FieldTypes
<1>4. reg' = [reg EXCEPT ![r] = AutoApproved([row EXCEPT !.verif = verdict])]
  BY DEF RosterAnswers
<1> HIDE DEF row, verdict
<1>5. RowInv([row EXCEPT !.verif = verdict])
  BY <1>2, <1>3 DEF RowInv, Row
<1> QED BY <1>1, <1>4, <1>5, AutoApprovedRow, OneRow DEF IInv

LEMMA TickStep ==
    ASSUME IInv, Tick
    PROVE  IInv'
<1>1. RequestInv' /\ AllPayInv'
  BY SameRequests DEF Tick, IInv, AllPayInv
<1>2. \A r \in Regs : reg[r].left > 0 => RowInv([reg[r] EXCEPT !.left = @ - 1])
  BY Timers DEF IInv, RegInv, RowInv, Row
<1>3. RegInv'
  BY <1>2 DEF Tick, IInv, RegInv, RowInv
<1> QED BY <1>1, <1>3 DEF IInv

LEMMA ExpireReservationStep ==
    ASSUME IInv, NEW r \in Regs, ExpireReservation(r)
    PROVE  IInv'
<1>1. RequestInv'
  BY SameRequests DEF ExpireReservation, IInv
<1>2. AllPayInv'
  <2>1. pay' = Retired(r, Live, "expired") /\ Live \in SUBSET {"created", "pending", "expired", "review_required"}
    BY DEF ExpireReservation, Live
  <2> QED BY <2>1, RetiredPays DEF IInv, AllPayInv
<1> DEFINE now == [reg[r] EXCEPT !.fee = "unpaid", !.left = Never, !.slot = 0]
<1>3. /\ now \in Row /\ now.left = Never /\ now.hold = reg[r].hold
      /\ now.status = reg[r].status /\ now.wait = reg[r].wait
  BY FieldTypes DEF IInv, RegInv, Row
<1>4. reg' = [reg EXCEPT ![r] = now]
  BY DEF ExpireReservation
<1> HIDE DEF now
<1>5. RowInv(now)
  BY <1>3, Timers, EntryAssumption DEF RowInv, IInv, RegInv
<1> QED BY <1>1, <1>2, <1>4, <1>5, OneRow DEF IInv

-----------------------------------------------------------------------------
(* The invariant.                                                          *)

LEMMA InitIInv == Init => IInv
<1> SUFFICES ASSUME Init PROVE IInv
  OBVIOUS
<1>1. RegInv
  BY AbsentRow DEF Init, RegInv, RowInv
<1>2. AllPayInv
  BY EntryAssumption DEF Init, AllPayInv, PayInv, Unborn, Payment, PayStatus, Reversed
<1>3. RequestInv
  BY EntryAssumption DEF Init, RequestInv, NoForm, NoDesk, RegStatus
<1> QED BY <1>1, <1>2, <1>3 DEF IInv

LEMMA NextIInv == IInv /\ [Next]_vars => IInv'
<1> SUFFICES ASSUME IInv, [Next]_vars PROVE IInv'
  OBVIOUS
<1>1. ASSUME NEW r \in Regs, EntrantStep(r)
      PROVE  IInv'
  BY <1>1, RegisterStep, LoadEntryStep, ResumePaymentStep, RetryEntryStep, RetryIntoWaitlistStep,
     EraseStep, RosterAnswersStep DEF EntrantStep, CancelUnpaidRegistration
<1>2. ASSUME NEW r \in Regs, StaffStep(r)
      PROVE  IInv'
  BY <1>2, LoadForStatusStep, StaffWaitlistsStep, StaffPromotesStep, StaffRejectsFromWaitlistStep,
     StaffSetsStatusStep, StaffVerifiesStep, WaivePaymentStep, HoldStep, EraseStep
     DEF StaffStep, DeleteTeamRegistration
<1>3. ASSUME NEW p \in Pays, PaymentStep(p)
      PROVE  IInv'
  BY <1>3, NotifyStep, ReviewStep, SubmitBankTransferProofStep, RejectBankTransferStep,
     ReopenExpiredPaymentStep DEF PaymentStep
<1>4. CASE DropForm \/ DropDesk
  BY <1>4, NoRequests DEF DropForm, DropDesk, IInv, RegInv, AllPayInv, RequestInv
<1>5. CASE UNCHANGED vars
  BY <1>5 DEF vars, requests, IInv, RegInv, AllPayInv, RequestInv
<1> QED BY <1>1, <1>2, <1>3, <1>4, <1>5, TickStep, ExpireReservationStep DEF Next

THEOREM Invariant == Spec => []IInv
<1> QED BY InitIInv, NextIInv, PTL DEF Spec

\* Every column of the registrations and payments, and what requests remember,
\* keeps its type.
THEOREM TypeCorrect == Spec => []TypeOK
<1>1. IInv => TypeOK
  BY DEF IInv, RegInv, AllPayInv, RequestInv, TypeOK
<1> QED BY <1>1, Invariant, PTL

\* Whoever waits has a place in the queue.
THEOREM WaitlistedHasPositionHolds == Spec => []WaitlistedHasPosition
<1>1. IInv => WaitlistedHasPosition
  BY DEF IInv, RegInv, RowInv, WaitlistedHasPosition
<1> QED BY <1>1, Invariant, PTL

\* A running bank-transfer reservation has a slot of the tournament, whether it
\* came from a quote, a consumed hold, a proof, a resubmission or a reopening.
THEOREM BankReservationNumberedHolds == Spec => []BankReservationNumbered
<1>1. IInv => BankReservationNumbered
  BY DEF IInv, RegInv, RowInv, BankReservationNumbered, ReservationRuns
<1> QED BY <1>1, Invariant, PTL

-----------------------------------------------------------------------------
(* Refunds are final.                                                      *)

\* What a step may do to a refunded payment.
Stands(p) ==
    \/ pay'[p].status = "refunded" \/ pay'[p] = Unborn
    \/ pay'[p].status = "review_required" /\ Charges(p)' # Charges(p)

\* A payment that is refunded belongs to a PayHere tournament, and only a report
\* of a charge not known before moves it, to review.
LEMMA RefundKept ==
    ASSUME IInv, [Next]_vars, NEW p \in Pays, pay[p].status = "refunded"
    PROVE  Stands(p)
<1>1. PayInv(pay[p]) /\ Provider = "payhere"
  BY DEF IInv, AllPayInv, PayInv
<1>2. ASSUME NEW r \in Regs, NewPayment(r), FeeCharged
      PROVE  pay'[p] = pay[p]
  BY <1>2, NewPaymentPays DEF IInv
<1>3. ASSUME NEW r \in Regs, Erase(r)
      PROVE  pay'[p] = pay[p] \/ pay'[p] = Unborn
  BY <1>3 DEF Erase
<1>4. ASSUME NEW r \in Regs, EntrantStep(r)
      PROVE  Stands(p)
  <2>1. CASE Register(r)
    BY <2>1, <1>2 DEF Register, Admit, Enqueue, PaysOnEntry, Stands
  <2>2. CASE ResumePayment(r) \/ RetryEntry(r)
    <3>1. form = [reg |-> r, path |-> "resume"] \/ form = [reg |-> r, path |-> "retry"]
      BY <2>2 DEF ResumePayment, RetryEntry
    <3>2. NewPayment(r)
      BY <2>2 DEF ResumePayment, RetryEntry
    <3>3. FeeCharged
      BY <3>1, EntryAssumption DEF IInv, RequestInv
    <3> QED BY <3>2, <3>3, <1>2 DEF Stands
  <2>3. CASE CancelUnpaidRegistration(r)
    BY <2>3, <1>3 DEF CancelUnpaidRegistration, Stands
  <2>4. CASE \/ \E path \in {"resume", "retry"} : LoadEntry(r, path)
             \/ RetryIntoWaitlist(r)
             \/ \E answers \in {"open", "accepted", "declined"} : RosterAnswers(r, answers)
    BY <2>4 DEF LoadEntry, RetryIntoWaitlist, RosterAnswers, Stands
  <2> QED BY <1>4, <2>1, <2>2, <2>3, <2>4 DEF EntrantStep
<1>5. ASSUME NEW r \in Regs, StaffStep(r)
      PROVE  Stands(p)
  <2>1. CASE DeleteTeamRegistration(r)
    BY <2>1, <1>3 DEF DeleteTeamRegistration, Stands
  <2>2. CASE WaivePayment(r)
    BY <2>2, RetiredPays DEF WaivePayment, IInv, Stands
  <2>3. CASE ~DeleteTeamRegistration(r) /\ ~WaivePayment(r)
    BY <1>5, <2>3 DEF StaffStep, LoadForStatus, StaffWaitlists, StaffPromotes,
       StaffRejectsFromWaitlist, StaffSetsStatus, StaffVerifies, ReserveAdminSlot, ReleaseAdminSlot,
       Stands
  <2> QED BY <2>1, <2>2, <2>3
<1>6. ASSUME NEW q \in Pays, PaymentStep(q)
      PROVE  Stands(p)
  <2>1. CASE q # p
    BY <1>6, <2>1 DEF PaymentStep, Notify, AcceptPayHere, MarkRefunded, SubmitBankTransferProof,
       ApproveBankTransfer, RejectBankTransfer, ReopenExpiredPayment, IInv, AllPayInv, Stands
  <2>2. CASE \E report \in Reports : Notify(p, report)
    <3>1. PICK report \in Reports : Notify(p, report)
      BY <2>2
    <3>2. PICK conflict \in {FALSE, TeamEntry} :
             pay' = [pay EXCEPT ![p] = [pay[p] EXCEPT
                !.status = NotifiedStatus(p, report.code, conflict), !.seen = pay[p].seen \cup {report}]]
      BY <3>1 DEF Notify
    <3> DEFINE applied == NotifiedStatus(p, report.code, conflict)
    <3>3. applied = IF report.code = "paid" THEN "review_required" ELSE "refunded"
      BY DEF NotifiedStatus, Payable, TerminalFailure, Reversed
    <3>4. pay' = [pay EXCEPT ![p] = [pay[p] EXCEPT
                    !.status = applied, !.seen = pay[p].seen \cup {report}]]
      BY <3>2
    <3> HIDE DEF applied
    <3>5. pay'[p].status = applied /\ pay'[p].seen = pay[p].seen \cup {report}
      BY <1>1, <3>4 DEF IInv, AllPayInv, PayInv, Payment
    <3>6. report.code = "paid" => report \in Charges(p)' /\ report \notin Charges(p)
      BY <3>1, <3>5 DEF Charges, Notify, NotProcessed
    <3> QED BY <3>3, <3>5, <3>6 DEF Stands
  <2>3. CASE q = p /\ ~\E report \in Reports : Notify(p, report)
    BY <1>1, <1>6, <2>3 DEF PaymentStep, AcceptPayHere, MarkRefunded, SubmitBankTransferProof,
       ApproveBankTransfer, RejectBankTransfer, ReopenExpiredPayment, AwaitsReview, Live,
       Stands
  <2> QED BY <1>6, <2>1, <2>2, <2>3 DEF PaymentStep
<1>7. ASSUME NEW r \in Regs, ExpireReservation(r)
      PROVE  pay'[p].status = "refunded"
  <2>1. Live \in SUBSET {"created", "pending", "expired", "review_required"}
    BY DEF Live
  <2> QED BY <1>7, <2>1, RetiredPays DEF ExpireReservation, IInv
<1>8. CASE DropForm \/ DropDesk \/ Tick \/ UNCHANGED vars
  BY <1>8 DEF DropForm, DropDesk, Tick, vars, Stands
<1>9. pay'[p].status = "refunded" \/ pay'[p] = Unborn => Stands(p)
  BY DEF Stands
<1> QED BY <1>4, <1>5, <1>6, <1>7, <1>8, <1>9 DEF Next

\* Whatever the provider repeats, and however late, a refund stands until it
\* reports a charge of which it said nothing before, and then staff decide.
THEOREM RefundStandsHolds == Spec => RefundStands
<1>1. IInv /\ [Next]_vars => [\A p \in Pays : pay[p].status = "refunded" => Stands(p)]_vars
  BY RefundKept
<1> QED BY <1>1, Invariant, PTL DEF Spec, RefundStands, Stands

-----------------------------------------------------------------------------
(* Money behind every paid registration.                                   *)

Funded(q) ==
    reg[q].fee = "paid" =>
        q \in waived \/ \E p \in Pays : pay[p].of = q /\ Funds(p)

\* A step that leaves q's money where it was if q still counts as paid, and does
\* not mark q paid.
KeepsPaid(q) ==
    reg'[q].fee = "paid" =>
        \A p \in Pays : pay[p].of = q /\ Funds(p) => pay'[p].of = q /\ Funds(p)'
NotNewlyPaid(q) == reg'[q].fee = "paid" => reg[q].fee = "paid"

\* Such a step cannot take q's money away.
LEMMA StillFunded ==
    ASSUME NEW q \in Regs, Funded(q), KeepsPaid(q), NotNewlyPaid(q),
           KeepWaivers \/ waived \subseteq waived'
    PROVE  Funded(q)'
BY DEF Funded, KeepsPaid, NotNewlyPaid, KeepWaivers

\* A payment that a step leaves alone is still the money it was.
LEMMA SameFunds ==
    ASSUME NEW p \in Pays, pay'[p] = pay[p]
    PROVE  Funds(p)' <=> Funds(p)
BY DEF Funds, Charges

\* So q keeps its money in a step that leaves its payments alone.
LEMMA OthersFunds ==
    ASSUME NEW q \in Regs, \A p \in Pays : pay[p].of = q => pay'[p] = pay[p]
    PROVE  KeepsPaid(q)
BY SameFunds DEF KeepsPaid

\* Writing a row that is not newly paid.
LEMMA OneFee ==
    ASSUME RegInv, NEW q \in Regs, NEW r \in Regs, NEW now,
           now.fee = "paid" => reg[r].fee = "paid", reg' = [reg EXCEPT ![r] = now]
    PROVE  NotNewlyPaid(q)
BY DEF NotNewlyPaid, RegInv

LEMMA RetiredKeepsPaid ==
    ASSUME AllPayInv, NEW q \in Regs, NEW r \in Regs,
           NEW from \in SUBSET {"created", "pending", "expired", "review_required"},
           NEW to \in {"expired", "cancelled"}, pay' = Retired(r, from, to),
           q # r \/ reg'[q].fee # "paid"
    PROVE  KeepsPaid(q)
<1>1. CASE q # r
  <2>1. \A p \in Pays : pay[p].of = q => pay'[p] = pay[p]
    BY <1>1 DEF Retired
  <2> QED BY <2>1, OthersFunds
<1>2. CASE reg'[q].fee # "paid"
  BY <1>2 DEF KeepsPaid
<1> QED BY <1>1, <1>2

LEMMA NewPaymentKeepsPaid ==
    ASSUME AllPayInv, NEW q \in Regs, NEW r \in Regs, NewPayment(r),
           q # r \/ reg'[q].fee # "paid"
    PROVE  KeepsPaid(q)
<1>1. CASE q # r
  <2>1. PICK p \in Pays : /\ MayBeNext(p, r)
                          /\ pay' = [Retired(r, Live, "expired") EXCEPT
                                        ![p] = [Unborn EXCEPT !.of = r, !.status = "created"]]
    BY DEF NewPayment
  <2>2. pay'[p].of = r
    BY <2>1, EntryAssumption DEF Retired, Unborn
  <2>3. \A o \in Pays \ {p} : pay[o].of = q => pay'[o] = pay[o]
    BY <1>1, <2>1 DEF Retired
  <2>4. ~Funds(p)
    BY <2>1 DEF Funds, MayBeNext
  <2> QED BY <2>3, <2>4, SameFunds DEF KeepsPaid
<1>2. CASE reg'[q].fee # "paid"
  BY <1>2 DEF KeepsPaid
<1> QED BY <1>1, <1>2

\* Deleting a registration takes the money of no other.
LEMMA EraseFunds ==
    ASSUME IInv, NEW q \in Regs, Funded(q), NEW r \in Regs, Erase(r)
    PROVE  Funded(q)'
<1>1. CASE q = r
  <2>1. reg'[q].fee = "unpaid"
    BY <1>1 DEF Erase, Absent, IInv, RegInv
  <2> QED BY <2>1 DEF Funded
<1>2. CASE q # r
  <2>1. NotNewlyPaid(q)
    BY <1>2 DEF Erase, NotNewlyPaid, IInv, RegInv
  <2>2. KeepsPaid(q)
    BY <1>2, OthersFunds DEF Erase, PaymentsOf
  <2> QED BY <2>1, <2>2, StillFunded DEF Erase
<1> QED BY <1>1, <1>2

LEMMA CompactedFee ==
    ASSUME RegInv, NEW q \in Regs, NEW r \in Regs, NEW now, now \in Row, NEW n,
           now.fee = "paid" => reg[r].fee = "paid",
           reg' = Compacted([reg EXCEPT ![r] = now], n)
    PROVE  NotNewlyPaid(q)
BY DEF NotNewlyPaid, RegInv, Compacted, Row

LEMMA EntrantFunds ==
    ASSUME IInv, FeeCharged, NEW q \in Regs, Funded(q), NEW r \in Regs, EntrantStep(r)
    PROVE  Funded(q)'
<1>0. /\ RegInv /\ AllPayInv /\ reg[r] \in Row
      /\ NewPayment(r) /\ (q = r => reg'[q].fee # "paid") => KeepsPaid(q)
      /\ UNCHANGED pay => KeepsPaid(q)
  BY NewPaymentKeepsPaid, OthersFunds DEF IInv, RegInv
<1>1. CASE Register(r)
  <2>1. PICK answers \in {"open", "accepted"} :
          LET row == [Absent EXCEPT !.invites = answers,
                         !.verif = IF answers = "accepted" THEN "verified" ELSE "pending"]
          IN Admit(r, row) \/ Enqueue(r, row)
    BY <1>1 DEF Register
  <2> DEFINE row == [Absent EXCEPT !.invites = answers,
                        !.verif = IF answers = "accepted" THEN "verified" ELSE "pending"]
  <2>2. row \in Row /\ row.fee = "unpaid"
    BY AbsentRow, FieldTypes DEF Absent, RowInv, Row
  <2>3. Admit(r, row) \/ Enqueue(r, row)
    BY <2>1
  <2> HIDE DEF row
  <2>4. UNCHANGED pay \/ (Admit(r, row) /\ NewPayment(r))
    BY <2>3 DEF Admit, Enqueue
  <2>5. CASE Admit(r, row)
    <3>1. PICK s \in AnySlot :
            reg' = [reg EXCEPT ![r] = AutoApproved([row EXCEPT
                 !.status = "pending", !.fee = IF PaysOnEntry THEN "pending" ELSE "unpaid",
                 !.left = IF PaysOnEntry THEN HoldTime ELSE Never, !.slot = s])]
      BY <2>5 DEF Admit
    <3> DEFINE now == [row EXCEPT
                 !.status = "pending", !.fee = IF PaysOnEntry THEN "pending" ELSE "unpaid",
                 !.left = IF PaysOnEntry THEN HoldTime ELSE Never, !.slot = s]
    <3>2. now.fee # "paid" /\ AutoApproved(now) = now
      BY <2>2 DEF AutoApproved, Row
    <3>3. reg' = [reg EXCEPT ![r] = now]
      BY <3>1, <3>2
    <3> HIDE DEF now
    <3>4. reg'[r].fee # "paid"
      BY <1>0, <3>2, <3>3 DEF RegInv
    <3>5. KeepsPaid(q)
      BY <1>0, <2>4, <3>4
    <3> QED BY <1>0, <1>1, <3>2, <3>3, <3>5, OneFee, StillFunded DEF Register
  <2>6. CASE Enqueue(r, row)
    <3>1. PICK n \in 1 .. MaxPosition :
            reg' = [reg EXCEPT ![r] = [row EXCEPT !.status = "waitlisted", !.wait = n]]
      BY <2>6 DEF Enqueue
    <3>2. [row EXCEPT !.status = "waitlisted", !.wait = n].fee # "paid"
      BY <2>2 DEF Row
    <3>3. KeepsPaid(q)
      BY <1>0, <2>6 DEF Enqueue
    <3> QED BY <1>0, <1>1, <3>1, <3>2, <3>3, OneFee, StillFunded DEF Register
  <2> QED BY <2>3, <2>5, <2>6
<1>2. CASE \E path \in {"resume", "retry"} : LoadEntry(r, path)
  BY <1>2, SameFunds DEF LoadEntry, Funded
<1>3. CASE ResumePayment(r)
  <2>1. PICK s \in AnySlot : reg' = [reg EXCEPT ![r] = [@ EXCEPT
                !.fee = "pending", !.verif = RosterVerdict(reg[r]),
                !.left = HoldTime, !.slot = s, !.hold = 0]]
    BY <1>3 DEF ResumePayment
  <2>2. NotNewlyPaid(q) /\ (q = r => reg'[q].fee # "paid")
    BY <1>0, <2>1 DEF NotNewlyPaid, RegInv, Row
  <2> QED BY <1>0, <1>3, <2>2, StillFunded DEF ResumePayment
<1>4. CASE RetryEntry(r)
  <2>1. PICK s \in AnySlot, answers \in {"open", "accepted"} :
          reg' = [reg EXCEPT ![r] = [@ EXCEPT
                !.status = "pending", !.fee = "pending", !.left = HoldTime,
                !.slot = s, !.hold = 0, !.invites = answers,
                !.verif = IF TeamEntry /\ answers = "accepted" THEN "verified" ELSE "pending"]]
    BY <1>4 DEF RetryEntry
  <2>2. NotNewlyPaid(q) /\ (q = r => reg'[q].fee # "paid")
    BY <1>0, <2>1 DEF NotNewlyPaid, RegInv, Row
  <2> QED BY <1>0, <1>4, <2>2, StillFunded DEF RetryEntry
<1>5. CASE RetryIntoWaitlist(r)
  <2>1. PICK n \in 1 .. MaxPosition : reg' = [reg EXCEPT ![r] = [@ EXCEPT
                !.status = "waitlisted", !.fee = "unpaid", !.left = Never,
                !.slot = 0, !.hold = 0, !.wait = n]]
    BY <1>5 DEF RetryIntoWaitlist
  <2>2. NotNewlyPaid(q)
    BY <1>0, <2>1 DEF NotNewlyPaid, RegInv, Row
  <2> QED BY <1>0, <1>5, <2>2, StillFunded DEF RetryIntoWaitlist
<1>6. CASE CancelUnpaidRegistration(r)
  BY <1>6, EraseFunds DEF CancelUnpaidRegistration
<1>7. ASSUME NEW answers \in {"open", "accepted", "declined"}, RosterAnswers(r, answers)
      PROVE  Funded(q)'
  <2> DEFINE row == [reg[r] EXCEPT !.invites = answers]
             now == [row EXCEPT !.verif = IF answers = "open" THEN "pending" ELSE RosterVerdict(row)]
  <2>1. reg' = [reg EXCEPT ![r] = AutoApproved(now)]
    BY <1>7 DEF RosterAnswers
  <2>2. row \in Row /\ row.fee = reg[r].fee
    BY <1>0 DEF Row
  <2> HIDE DEF row
  <2>3. now.fee = reg[r].fee /\ AutoApproved(now).fee = now.fee
    BY <2>2 DEF Row, AutoApproved
  <2> HIDE DEF now
  <2>4. NotNewlyPaid(q)
    BY <1>0, <2>1, <2>3, OneFee
  <2>5. KeepsPaid(q) /\ KeepWaivers
    BY <1>0, <1>7 DEF RosterAnswers
  <2> QED BY <2>4, <2>5, StillFunded
<1> QED BY <1>1, <1>2, <1>3, <1>4, <1>5, <1>6, <1>7 DEF EntrantStep

LEMMA StaffFunds ==
    ASSUME IInv, FeeCharged, NEW q \in Regs, Funded(q), NEW r \in Regs, StaffStep(r)
    PROVE  Funded(q)'
<1>0. /\ RegInv /\ RowInv(reg[r]) /\ reg[r] \in Row /\ desk.to \in RegStatus
      /\ UNCHANGED pay => KeepsPaid(q)
  BY OthersFunds DEF IInv, RegInv, RequestInv
<1>1. CASE \E to \in StaffTargets : LoadForStatus(r, to)
  BY <1>1, SameFunds DEF LoadForStatus, Funded
<1>2. CASE StaffWaitlists(r)
  <2>1. PICK n \in 1 .. MaxPosition, row \in Decided(reg[r], "waitlisted") :
          reg' = [reg EXCEPT ![r] = [row EXCEPT !.wait = n, !.slot = 0, !.left = Never, !.hold = 0]]
    BY <1>2 DEF StaffWaitlists
  <2>2. row \in Row /\ row.fee = reg[r].fee
    BY <1>0, DecidedRow, FieldTypes
  <2>3. [row EXCEPT !.wait = n, !.slot = 0, !.left = Never, !.hold = 0].fee = row.fee
    BY <2>2 DEF Row
  <2> QED BY <1>0, <1>2, <2>1, <2>2, <2>3, OneFee, StillFunded DEF StaffWaitlists
<1>3. CASE StaffPromotes(r)
  <2>1. PICK s \in AnySlot, row \in Decided(reg[r], desk.to) :
           reg' = Compacted([reg EXCEPT ![r] = [row EXCEPT !.slot = s, !.wait = 0,
                        !.fee = IF FeeCharged THEN @ ELSE "paid"]], reg[r].wait)
    BY <1>3 DEF StaffPromotes
  <2>2. row \in Row /\ row.fee = reg[r].fee
    BY <1>0, DecidedRow
  <2> DEFINE now == [row EXCEPT !.slot = s, !.wait = 0, !.fee = IF FeeCharged THEN @ ELSE "paid"]
  <2>3. now \in Row /\ now.fee = row.fee
    BY <2>2, AnySlotType DEF Row
  <2>4. NotNewlyPaid(q)
    <3>1. reg' = Compacted([reg EXCEPT ![r] = now], reg[r].wait)
      BY <2>1
    <3> HIDE DEF now
    <3> QED BY <1>0, <2>2, <2>3, <3>1, CompactedFee
  <2> QED BY <1>0, <1>3, <2>4, StillFunded DEF StaffPromotes
<1>4. CASE StaffRejectsFromWaitlist(r)
  <2>1. PICK row \in Decided(reg[r], "rejected") :
          reg' = Compacted([reg EXCEPT ![r] = [row EXCEPT !.wait = 0]], reg[r].wait)
    BY <1>4 DEF StaffRejectsFromWaitlist
  <2>2. row \in Row /\ row.fee = reg[r].fee
    BY <1>0, DecidedRow, FieldTypes
  <2> DEFINE now == [row EXCEPT !.wait = 0]
  <2>3. now \in Row /\ now.fee = row.fee
    BY <2>2 DEF Row
  <2>4. NotNewlyPaid(q)
    <3>1. reg' = Compacted([reg EXCEPT ![r] = now], reg[r].wait)
      BY <2>1
    <3> HIDE DEF now
    <3> QED BY <1>0, <2>2, <2>3, <3>1, CompactedFee
  <2> QED BY <1>0, <1>4, <2>4, StillFunded DEF StaffRejectsFromWaitlist
<1>5. CASE StaffSetsStatus(r)
  <2>1. PICK row \in Decided(reg[r], desk.to) : reg' = [reg EXCEPT ![r] = row]
    BY <1>5 DEF StaffSetsStatus
  <2>2. row.fee = reg[r].fee
    BY <1>0, DecidedRow
  <2> QED BY <1>0, <1>5, <2>1, <2>2, OneFee, StillFunded DEF StaffSetsStatus
<1>6. CASE WaivePayment(r)
  <2>1. PICK s \in AnySlot, row \in Decided(reg[r], "approved") :
        reg' = Compacted([reg EXCEPT ![r] = [row EXCEPT !.fee = "paid", !.slot = s, !.left = Never,
                    !.hold = 0, !.wait = IF reg[r].status = "waitlisted" THEN 0 ELSE @]],
                         IF reg[r].status = "waitlisted" THEN reg[r].wait ELSE 0)
    BY <1>6 DEF WaivePayment
  <2>2. waived' = waived \cup {r} /\ (q # r => KeepsPaid(q))
    BY <1>6, RetiredKeepsPaid DEF WaivePayment, IInv
  <2>3. CASE q = r
    BY <2>2, <2>3 DEF Funded
  <2>4. CASE q # r
    <3>1. NotNewlyPaid(q)
      BY <1>0, <2>1, <2>4 DEF NotNewlyPaid, Compacted, RegInv, Row
    <3> QED BY <2>2, <2>4, <3>1, StillFunded
  <2> QED BY <2>3, <2>4
<1>7. CASE \E verdict \in StaffVerdicts : StaffVerifies(r, verdict)
  <2>1. PICK verdict \in StaffVerdicts : StaffVerifies(r, verdict)
    BY <1>7
  <2> DEFINE row == [reg[r] EXCEPT !.verif = verdict]
  <2>2. reg' = [reg EXCEPT ![r] = IF verdict = "verified" THEN AutoApproved(row) ELSE row]
    BY <2>1 DEF StaffVerifies
  <2>3. row.fee = reg[r].fee /\ AutoApproved(row).fee = row.fee
    BY <1>0 DEF Row, AutoApproved
  <2> HIDE DEF row
  <2>4. NotNewlyPaid(q)
    BY <1>0, <2>2, <2>3, OneFee
  <2>5. KeepsPaid(q) /\ KeepWaivers
    BY <1>0, <2>1 DEF StaffVerifies
  <2> QED BY <2>4, <2>5, StillFunded
<1>8. CASE ReserveAdminSlot(r) \/ ReleaseAdminSlot(r)
  <2>1. NotNewlyPaid(q)
    BY <1>0, <1>8 DEF ReserveAdminSlot, ReleaseAdminSlot, NotNewlyPaid, RegInv, Row
  <2> QED BY <1>0, <1>8, <2>1, StillFunded DEF ReserveAdminSlot, ReleaseAdminSlot
<1>9. CASE DeleteTeamRegistration(r)
  BY <1>9, EraseFunds DEF DeleteTeamRegistration
<1> QED BY <1>1, <1>2, <1>3, <1>4, <1>5, <1>6, <1>7, <1>8, <1>9 DEF StaffStep

LEMMA PaymentFunds ==
    ASSUME IInv, FeeCharged, NEW q \in Regs, Funded(q), NEW p \in Pays, PaymentStep(p)
    PROVE  Funded(q)'
<1> DEFINE r == pay[p].of
<1>0. /\ RegInv /\ AllPayInv /\ PayInv(pay[p]) /\ pay[p].status \in PayStatus
  BY DEF IInv, AllPayInv, PayInv, Payment
<1>1. ASSUME NEW report \in Reports, Notify(p, report) PROVE Funded(q)'
  <2>1. PICK conflict \in {FALSE, TeamEntry} :
        /\ pay' = [pay EXCEPT ![p] = [pay[p] EXCEPT
                      !.status = NotifiedStatus(p, report.code, conflict), !.seen = pay[p].seen \cup {report}]]
        /\ reg' = IF NotifiedStatus(p, report.code, conflict) = pay[p].status THEN reg
                  ELSE [reg EXCEPT ![r] = Settled(@, NotifiedStatus(p, report.code, conflict))]
    BY <1>1 DEF Notify
  <2> DEFINE applied == NotifiedStatus(p, report.code, conflict)
  <2>2. applied \in PayStatus
    BY <1>0, NotifiedStatusType, ReportCode, EntryAssumption
  <2>3. r \in Regs /\ Provider = "payhere" /\ RowInv(reg[r])
    BY <1>0, <1>1 DEF Notify, PayInv, Payment, RegInv
  <2>4. /\ pay' = [pay EXCEPT ![p] = [pay[p] EXCEPT !.status = applied, !.seen = pay[p].seen \cup {report}]]
        /\ reg' = IF applied = pay[p].status THEN reg
                  ELSE [reg EXCEPT ![r] = Settled(@, applied)]
    BY <2>1
  <2>5. /\ pay'[p].of = r /\ pay'[p].status = applied
        /\ pay'[p].seen = pay[p].seen \cup {report} /\ report \notin pay[p].seen
        /\ \A o \in Pays : o # p => pay'[o] = pay[o]
    <3> HIDE DEF applied
    <3> QED BY <1>0, <1>1, <2>4 DEF AllPayInv, PayInv, Payment, Notify, NotProcessed
  <2>6. Funds(p) => Funds(p)' \/ (applied \in Reversed /\ applied # pay[p].status)
    <3>1. CASE pay[p].status = "paid" /\ report.code = "paid"
      <4>1. applied \in {"paid", "review_required"}
        BY <3>1 DEF NotifiedStatus
      <4>2. PICK a \in pay[p].seen : a.code = "paid"
        BY <1>0, <2>3, <3>1 DEF PayInv
      <4>3. a \in Charges(p)' /\ report \in Charges(p)' /\ a # report
        BY <2>5, <3>1, <4>2 DEF Charges
      <4> QED BY <2>5, <4>1, <4>3 DEF Funds
    <3>2. CASE pay[p].status = "paid" /\ report.code # "paid"
      <4>1. applied \in {"paid", "charged_back"}
        BY <3>2 DEF NotifiedStatus, TerminalFailure, Reversed
      <4> QED BY <2>5, <3>2, <4>1 DEF Funds, Reversed
    <3>3. CASE pay[p].status = "review_required" /\ \E a, b \in Charges(p) : a # b
      <4>1. applied = "review_required"
        BY <3>3 DEF NotifiedStatus, Payable, TerminalFailure
      <4>2. Charges(p) \subseteq Charges(p)'
        BY <2>5 DEF Charges
      <4> QED BY <2>5, <3>3, <4>1, <4>2 DEF Funds
    <3> QED BY <3>1, <3>2, <3>3 DEF Funds
  <2> HIDE DEF applied
  <2>7. CASE applied = "paid" /\ q = r
    BY <2>3, <2>5, <2>7 DEF Funded, Funds
  <2>8. CASE applied \in Reversed /\ q = r /\ applied # pay[p].status
    <3>1. reg'[r].fee = "unpaid"
      BY <1>0, <2>3, <2>4, <2>8, <2>2, SettledRow DEF RegInv, Reversed
    <3> QED BY <2>8, <3>1 DEF Funded
  <2>9. CASE /\ ~(applied = "paid" /\ q = r)
             /\ ~(applied \in Reversed /\ q = r /\ applied # pay[p].status)
    <3>1. KeepsPaid(q)
      BY <2>5, <2>9, <2>6, SameFunds DEF KeepsPaid
    <3>2. NotNewlyPaid(q)
      BY <1>0, <2>2, <2>3, <2>4, <2>9, SettledRow DEF NotNewlyPaid, RegInv, Reversed
    <3> QED BY <1>1, <3>1, <3>2, StillFunded DEF Notify
  <2> QED BY <2>7, <2>8, <2>9
<1>2. CASE AcceptPayHere(p) \/ ApproveBankTransfer(p)
  <2>1. r \in Regs /\ pay' = [pay EXCEPT ![p].status = "paid"] /\ reg' = [reg EXCEPT ![r] = Settled(@, "paid")]
    BY <1>0, <1>2 DEF AcceptPayHere, ApproveBankTransfer, AwaitsReview, PayInv, Payment
  <2>2. KeepsPaid(q) /\ pay'[p].of = r /\ Funds(p)'
    <3>1. pay'[p].of = r /\ pay'[p].status = "paid" /\ \A o \in Pays : o # p => pay'[o] = pay[o]
      BY <1>0, <2>1 DEF AllPayInv, PayInv, Payment
    <3>2. Funds(p)'
      BY <3>1 DEF Funds
    <3> QED BY <3>1, <3>2, SameFunds DEF KeepsPaid
  <2>3. q # r => NotNewlyPaid(q)
    BY <1>0, <2>1 DEF NotNewlyPaid, RegInv
  <2>4. q # r => Funded(q)'
    BY <1>2, <2>2, <2>3, StillFunded DEF AcceptPayHere, ApproveBankTransfer
  <2> QED BY <2>2, <2>4 DEF Funded
<1>3. CASE MarkRefunded(p)
  <2>1. r \in Regs /\ pay' = [pay EXCEPT ![p].status = "refunded"]
        /\ reg' = [reg EXCEPT ![r] = Settled(@, "refunded")] /\ pay[p].status # "paid"
    BY <1>0, <1>3 DEF MarkRefunded, AwaitsReview, PayInv, Payment
  <2>2. q # r => KeepsPaid(q)
    BY <1>0, <2>1, OthersFunds DEF AllPayInv
  <2>3. NotNewlyPaid(q) /\ reg'[r].fee # "paid"
    <3>1. RowInv(reg[r]) /\ "refunded" \in PayStatus /\ "refunded" \in Reversed
      BY <1>0, <2>1 DEF RegInv, PayStatus, Reversed
    <3>2. Settled(reg[r], "refunded").fee = "unpaid"
      BY <3>1, SettledRow
    <3> QED BY <1>0, <2>1, <3>2 DEF NotNewlyPaid, RegInv
  <2>4. KeepsPaid(q)
    BY <2>2, <2>3 DEF KeepsPaid
  <2> QED BY <1>3, <2>3, <2>4, StillFunded DEF MarkRefunded
<1>4. CASE SubmitBankTransferProof(p) \/ RejectBankTransfer(p)
  <2>1. r \in Regs /\ pay[p].status # "paid"
    BY <1>0, <1>4 DEF SubmitBankTransferProof, RejectBankTransfer, AwaitsReview, Live, PayInv, Payment
  <2>2. q # r => KeepsPaid(q)
    BY <1>0, <1>4, OthersFunds DEF SubmitBankTransferProof, RejectBankTransfer, AllPayInv
  <2>3. reg[r] \in Row
    BY <1>0, <2>1 DEF RegInv
  <2>4. reg'[r].fee # "paid"
    <3>1. CASE SubmitBankTransferProof(p)
      BY <1>0, <2>1, <2>3, <3>1 DEF SubmitBankTransferProof, RegInv, Row
    <3>2. CASE RejectBankTransfer(p)
      BY <1>0, <2>1, <2>3, <3>2 DEF RejectBankTransfer, RegInv, Row
    <3> QED BY <1>4, <3>1, <3>2
  <2>5. q # r => reg'[q] = reg[q]
    BY <1>0, <1>4 DEF SubmitBankTransferProof, RejectBankTransfer, RegInv
  <2>6. NotNewlyPaid(q) /\ KeepWaivers
    BY <1>4, <2>4, <2>5 DEF NotNewlyPaid, SubmitBankTransferProof, RejectBankTransfer
  <2>7. KeepsPaid(q)
    BY <2>2, <2>4 DEF KeepsPaid
  <2> QED BY <2>6, <2>7, StillFunded
<1>5. CASE ReopenExpiredPayment(p)
  <2>1. r \in Regs /\ pay[p].status # "paid"
    BY <1>0, <1>5 DEF ReopenExpiredPayment, PayInv, Payment
  <2>2. q # r => KeepsPaid(q)
    BY <1>0, <1>5, OthersFunds DEF ReopenExpiredPayment, AllPayInv
  <2>3. reg[r] \in Row
    BY <1>0, <2>1 DEF RegInv
  <2>4. PICK s \in AnySlot : reg' = [reg EXCEPT ![r] = [@ EXCEPT !.fee = "pending", !.slot = s,
                        !.left = IF pay[p].proof THEN ReviewTime ELSE HoldTime]]
    BY <1>5 DEF ReopenExpiredPayment
  <2>5. NotNewlyPaid(q) /\ reg'[r].fee # "paid"
    BY <1>0, <2>1, <2>3, <2>4 DEF NotNewlyPaid, RegInv, Row
  <2>6. KeepsPaid(q)
    BY <2>2, <2>5 DEF KeepsPaid
  <2> QED BY <1>5, <2>5, <2>6, StillFunded DEF ReopenExpiredPayment
<1> QED BY <1>1, <1>2, <1>3, <1>4, <1>5 DEF PaymentStep

\* Every paid registration of a paid tournament has its money or its waiver,
\* whatever becomes of its other payments.
THEOREM PaidIsFundedHolds == Spec => []PaidIsFunded
<1>1. Init => PaidIsFunded
  BY DEF Init, PaidIsFunded, Absent
<1>2. IInv /\ PaidIsFunded /\ [Next]_vars => PaidIsFunded'
  <2> SUFFICES ASSUME IInv, PaidIsFunded, [Next]_vars, FeeCharged, NEW q \in Regs
               PROVE  Funded(q)'
    BY DEF PaidIsFunded, Funded, PaymentsOf
  <2>1. Funded(q)
    BY DEF PaidIsFunded, Funded, PaymentsOf
  <2>2. ASSUME NEW r \in Regs, EntrantStep(r) \/ StaffStep(r) PROVE Funded(q)'
    BY <2>1, <2>2, EntrantFunds, StaffFunds
  <2>3. ASSUME NEW p \in Pays, PaymentStep(p) PROVE Funded(q)'
    BY <2>1, <2>3, PaymentFunds
  <2>4. ASSUME NEW r \in Regs, ExpireReservation(r) PROVE Funded(q)'
    <3>1. KeepsPaid(q)
      <4>1. Live \in SUBSET {"created", "pending", "expired", "review_required"}
        BY DEF Live
      <4>2. reg'[r].fee # "paid"
        BY <2>4 DEF ExpireReservation, IInv, RegInv, Row
      <4> QED BY <2>4, <4>1, <4>2, RetiredKeepsPaid DEF ExpireReservation, IInv
    <3>2. NotNewlyPaid(q)
      BY <2>4 DEF ExpireReservation, NotNewlyPaid, IInv, RegInv, Row
    <3> QED BY <2>1, <2>4, <3>1, <3>2, StillFunded DEF ExpireReservation
  <2>5. CASE Tick
    <3>1. NotNewlyPaid(q) /\ UNCHANGED <<pay, waived>>
      BY <2>5 DEF Tick, NotNewlyPaid, IInv, RegInv, Row
    <3>2. KeepsPaid(q)
      BY <3>1, OthersFunds
    <3> QED BY <2>1, <3>1, <3>2, StillFunded
  <2>6. CASE DropForm \/ DropDesk \/ UNCHANGED vars
    BY <2>1, <2>6, SameFunds DEF DropForm, DropDesk, vars, Funded
  <2> QED BY <2>2, <2>3, <2>4, <2>5, <2>6 DEF Next
<1> QED BY <1>1, <1>2, Invariant, PTL DEF Spec

-----------------------------------------------------------------------------
(* Capacity.                                                               *)

Occupies(row) == Active(row) \/ row.hold # 0

\* Nobody but r gains a place in this step.
OthersGainNothing(r) == \A q \in Regs \ {r} : Occupies(reg'[q]) => Occupies(reg[q])

WithinCapacity ==
    \/ Unlimited
    \/ StaffForces
    \/ Cardinality(Occupants') <= MaxTeams
    \/ Occupants' \subseteq Occupants

\* What countTournamentCapacityUsage adds up is the number of other entrants
\* with a place: a row that is both active and held is counted once.
LEMMA CapacityCountsOccupants ==
    ASSUME NEW r \in Regs
    PROVE  CapacityUsed(r) = Cardinality({q \in Regs \ {r} : Occupies(reg[q])})
<1>1. IsFiniteSet(ActiveOthers(r)) /\ IsFiniteSet(HeldOthers(r))
  BY FS_Subset, EntryAssumption DEF ActiveOthers, HeldOthers
<1>2. ActiveOthers(r) \cup HeldOthers(r) = {q \in Regs \ {r} : Occupies(reg[q])}
  BY DEF ActiveOthers, HeldOthers, Occupies
<1>3. Cardinality(ActiveOthers(r) \cup HeldOthers(r)) =
        Cardinality(ActiveOthers(r)) + Cardinality(HeldOthers(r))
            - Cardinality(ActiveOthers(r) \cap HeldOthers(r))
  BY <1>1, FS_Union
<1> QED BY <1>2, <1>3 DEF CapacityUsed

\* One entrant who takes a place after the capacity check fits.
LEMMA RoomForOne ==
    ASSUME NEW r \in Regs, HasRoom(r), OthersGainNothing(r)
    PROVE  WithinCapacity
<1>1. CASE Unlimited
  BY <1>1 DEF WithinCapacity
<1>2. CASE ~Unlimited
  <2> DEFINE others == {q \in Regs \ {r} : Occupies(reg[q])}
  <2>1. IsFiniteSet(others)
    BY FS_Subset, EntryAssumption
  <2>2. Cardinality(others) < MaxTeams /\ Cardinality(others) \in Nat
    BY <1>2, <2>1, CapacityCountsOccupants, FS_CardinalityType DEF HasRoom
  <2>3. Occupants' \subseteq others \cup {r}
    BY DEF Occupants, OthersGainNothing, Occupies
  <2>4. r \notin others
    OBVIOUS
  <2> HIDE DEF others
  <2>5. IsFiniteSet(others \cup {r}) /\ Cardinality(others \cup {r}) = Cardinality(others) + 1
    BY <2>1, <2>4, FS_AddElement
  <2>6. Cardinality(Occupants') <= Cardinality(others \cup {r}) /\ Cardinality(Occupants') \in Nat
    BY <2>3, <2>5, FS_Subset, FS_CardinalityType
  <2> QED BY <2>2, <2>5, <2>6, EntryAssumption DEF WithinCapacity
<1> QED BY <1>1, <1>2

\* A step in which nobody takes a place.
LEMMA NobodyEnters ==
    ASSUME NEW r \in Regs, OthersGainNothing(r), Occupies(reg'[r]) => Occupies(reg[r])
    PROVE  WithinCapacity
BY DEF WithinCapacity, OthersGainNothing, Occupants, Occupies

LEMMA OneRowOthers ==
    ASSUME RegInv, NEW r \in Regs, NEW now, reg' = [reg EXCEPT ![r] = now]
    PROVE  OthersGainNothing(r) /\ reg'[r] = now
BY DEF OthersGainNothing, RegInv

LEMMA OneRowNobodyEnters ==
    ASSUME RegInv, NEW r \in Regs, NEW now, reg' = [reg EXCEPT ![r] = now],
           Occupies(now) => Occupies(reg[r])
    PROVE  WithinCapacity
<1>1. OthersGainNothing(r) /\ reg'[r] = now
  BY OneRowOthers
<1>2. Occupies(reg'[r]) => Occupies(reg[r])
  BY <1>1
<1> QED BY <1>1, <1>2, NobodyEnters

\* Compaction changes positions in the queue and no places.
LEMMA CompactedOthers ==
    ASSUME RegInv, NEW r \in Regs, NEW now, now \in Row, NEW n,
           reg' = Compacted([reg EXCEPT ![r] = now], n)
    PROVE  /\ OthersGainNothing(r)
           /\ Occupies(reg'[r]) <=> Occupies(now)
BY DEF OthersGainNothing, Occupies, Active, RegInv, Compacted, Row

\* Automatic approval takes no place: an approved row was pending and paid.
LEMMA AutoApprovedPlace ==
    ASSUME NEW row, row \in Row
    PROVE  Occupies(AutoApproved(row)) <=> Occupies(row)
BY DEF AutoApproved, Occupies, Active, Row

\* Settling a payment other than as paid takes no place.
LEMMA SettledPlace ==
    ASSUME NEW row, RowInv(row), NEW outcome \in PayStatus, outcome # "paid",
           outcome = "pending" => Provider = "payhere"
    PROVE  Occupies(Settled(row, outcome)) => Occupies(row)
<1>1. /\ Settled(row, outcome).hold = 0 /\ Settled(row, outcome).status = row.status
      /\ outcome \in Reversed => Settled(row, outcome).fee = "unpaid"
      /\ outcome \notin Reversed \cup {"paid", "pending"} => Settled(row, outcome).fee = row.fee
      /\ outcome = "pending" => Settled(row, outcome).fee = "pending"
      /\ outcome \notin Reversed \cup {"paid"} => Settled(row, outcome).left = row.left
  BY SettledRow
<1> QED BY <1>1 DEF Occupies, Active, RowInv, Reversed

LEMMA EraseCapacity ==
    ASSUME IInv, NEW r \in Regs, Erase(r)
    PROVE  WithinCapacity
<1>1. ~Occupies(Absent)
  BY DEF Occupies, Active, Absent
<1> QED BY <1>1, OneRowNobodyEnters DEF Erase, IInv

LEMMA EntrantCapacity ==
    ASSUME IInv, NEW r \in Regs, EntrantStep(r)
    PROVE  WithinCapacity
<1>0. RegInv /\ reg[r] \in Row
  BY DEF IInv, RegInv
<1>1. CASE Register(r)
  <2>1. PICK answers \in {"open", "accepted"} :
          LET row == [Absent EXCEPT !.invites = answers,
                         !.verif = IF answers = "accepted" THEN "verified" ELSE "pending"]
          IN Admit(r, row) \/ Enqueue(r, row)
    BY <1>1 DEF Register
  <2> DEFINE row == [Absent EXCEPT !.invites = answers,
                        !.verif = IF answers = "accepted" THEN "verified" ELSE "pending"]
  <2>2. row \in Row /\ row.hold = 0
    BY AbsentRow, FieldTypes DEF Absent, RowInv, Row
  <2>3. Admit(r, row) \/ Enqueue(r, row)
    BY <2>1
  <2> HIDE DEF row
  <2>4. CASE Admit(r, row)
    <3>1. OthersGainNothing(r) /\ HasRoom(r)
      <4>1. HasRoom(r) /\ \E now : reg' = [reg EXCEPT ![r] = now]
        BY <2>4 DEF Admit
      <4> QED BY <1>0, <4>1, OneRowOthers
    <3> QED BY <3>1, RoomForOne
  <2>5. CASE Enqueue(r, row)
    <3>1. PICK n \in 1 .. MaxPosition :
            reg' = [reg EXCEPT ![r] = [row EXCEPT !.status = "waitlisted", !.wait = n]]
      BY <2>5 DEF Enqueue
    <3>2. ~Occupies([row EXCEPT !.status = "waitlisted", !.wait = n])
      BY <2>2 DEF Occupies, Active, Row
    <3> QED BY <1>0, <3>1, <3>2, OneRowNobodyEnters
  <2> QED BY <2>3, <2>4, <2>5
<1>2. CASE \E path \in {"resume", "retry"} : LoadEntry(r, path)
  BY <1>2 DEF LoadEntry, WithinCapacity, Occupants
<1>3. CASE ResumePayment(r) \/ RetryEntry(r)
  <2>1. PICK now : reg' = [reg EXCEPT ![r] = now]
    <3>1. CASE ResumePayment(r)
      BY <3>1 DEF ResumePayment
    <3>2. CASE RetryEntry(r)
      BY <3>2 DEF RetryEntry
    <3> QED BY <1>3, <3>1, <3>2
  <2>2. OthersGainNothing(r)
    BY <1>0, <2>1, OneRowOthers
  <2>3. HasRoom(r)
    BY <1>3 DEF ResumePayment, RetryEntry
  <2> QED BY <2>2, <2>3, RoomForOne
<1>4. CASE RetryIntoWaitlist(r)
  <2>1. PICK n \in 1 .. MaxPosition : reg' = [reg EXCEPT ![r] = [@ EXCEPT
                !.status = "waitlisted", !.fee = "unpaid", !.left = Never,
                !.slot = 0, !.hold = 0, !.wait = n]]
    BY <1>4 DEF RetryIntoWaitlist
  <2> DEFINE now == [reg[r] EXCEPT !.status = "waitlisted", !.fee = "unpaid", !.left = Never,
                                   !.slot = 0, !.hold = 0, !.wait = n]
  <2>2. ~Occupies(now)
    BY <1>0 DEF Occupies, Active, Row
  <2>3. reg' = [reg EXCEPT ![r] = now]
    BY <2>1
  <2> QED BY <1>0, <2>2, <2>3, OneRowNobodyEnters
<1>5. CASE CancelUnpaidRegistration(r)
  BY <1>5, EraseCapacity DEF CancelUnpaidRegistration
<1>6. ASSUME NEW answers \in {"open", "accepted", "declined"}, RosterAnswers(r, answers)
      PROVE  WithinCapacity
  <2> DEFINE row == [reg[r] EXCEPT !.invites = answers]
             verdict == IF answers = "open" THEN "pending" ELSE RosterVerdict(row)
             now == [row EXCEPT !.verif = verdict]
  <2>1. reg' = [reg EXCEPT ![r] = AutoApproved(now)]
    BY <1>6 DEF RosterAnswers
  <2>2. RowInv(row) /\ (Occupies(row) <=> Occupies(reg[r]))
    BY <1>0 DEF IInv, RegInv, RowInv, Row, Occupies, Active
  <2>3. verdict \in Verdict
    BY <2>2, RosterVerdictType, FieldTypes
  <2> HIDE DEF row, verdict
  <2>4. now \in Row /\ (Occupies(now) <=> Occupies(row))
    BY <2>2, <2>3 DEF RowInv, Row, Occupies, Active
  <2> HIDE DEF now
  <2> QED BY <1>0, <2>1, <2>2, <2>4, AutoApprovedPlace, OneRowNobodyEnters
<1> QED BY <1>1, <1>2, <1>3, <1>4, <1>5, <1>6 DEF EntrantStep

LEMMA StaffCapacity ==
    ASSUME IInv, NEW r \in Regs, StaffStep(r)
    PROVE  WithinCapacity
<1>0. RegInv /\ RowInv(reg[r]) /\ reg[r] \in Row /\ desk.to \in RegStatus
  BY DEF IInv, RegInv, RequestInv
<1>1. CASE \E to \in StaffTargets : LoadForStatus(r, to)
  BY <1>1 DEF LoadForStatus, WithinCapacity, Occupants
<1>2. CASE StaffWaitlists(r)
  <2>1. PICK n \in 1 .. MaxPosition, row \in Decided(reg[r], "waitlisted") :
          reg' = [reg EXCEPT ![r] = [row EXCEPT !.wait = n, !.slot = 0, !.left = Never, !.hold = 0]]
    BY <1>2 DEF StaffWaitlists
  <2>2. row \in Row /\ row.status = "waitlisted"
    BY <1>0, DecidedRow, FieldTypes
  <2>3. ~Occupies([row EXCEPT !.wait = n, !.slot = 0, !.left = Never, !.hold = 0])
    BY <2>2 DEF Row, Occupies, Active
  <2> QED BY <1>0, <2>1, <2>3, OneRowNobodyEnters
<1>3. CASE StaffPromotes(r)
  <2>1. PICK s \in AnySlot, row \in Decided(reg[r], desk.to) :
           reg' = Compacted([reg EXCEPT ![r] = [row EXCEPT !.slot = s, !.wait = 0,
                        !.fee = IF FeeCharged THEN @ ELSE "paid"]], reg[r].wait)
    BY <1>3 DEF StaffPromotes
  <2> DEFINE now == [row EXCEPT !.slot = s, !.wait = 0, !.fee = IF FeeCharged THEN @ ELSE "paid"]
  <2>2. row \in Row
    BY <1>0, DecidedRow
  <2>3. now \in Row /\ HasRoom(r)
    BY <1>3, <2>2, AnySlotType DEF Row, StaffPromotes
  <2>4. OthersGainNothing(r)
    <3>1. reg' = Compacted([reg EXCEPT ![r] = now], reg[r].wait)
      BY <2>1
    <3> HIDE DEF now
    <3> QED BY <1>0, <2>3, <3>1, CompactedOthers
  <2> QED BY <2>3, <2>4, RoomForOne
<1>4. CASE StaffRejectsFromWaitlist(r)
  <2>1. PICK row \in Decided(reg[r], "rejected") :
          reg' = Compacted([reg EXCEPT ![r] = [row EXCEPT !.wait = 0]], reg[r].wait)
    BY <1>4 DEF StaffRejectsFromWaitlist
  <2> DEFINE now == [row EXCEPT !.wait = 0]
  <2>2. row \in Row /\ row.status = "rejected" /\ row.hold = reg[r].hold
    BY <1>0, DecidedRow, FieldTypes
  <2>3. now \in Row /\ (Occupies(now) => Occupies(reg[r]))
    BY <2>2 DEF Row, Occupies, Active
  <2>4. OthersGainNothing(r) /\ (Occupies(reg'[r]) => Occupies(now))
    <3>1. reg' = Compacted([reg EXCEPT ![r] = now], reg[r].wait)
      BY <2>1
    <3> HIDE DEF now
    <3> QED BY <1>0, <2>3, <3>1, CompactedOthers
  <2> QED BY <2>3, <2>4, NobodyEnters
<1>5. CASE StaffSetsStatus(r)
  BY <1>5 DEF WithinCapacity, StaffForces
<1>6. CASE WaivePayment(r)
  <2>1. CASE reg[r].slot # 0
    BY <1>6, <2>1 DEF WithinCapacity, StaffForces
  <2>2. CASE reg[r].slot = 0
    <3>1. PICK s \in AnySlot, row \in Decided(reg[r], "approved") :
            /\ IF reg[r].hold # 0 THEN s = reg[r].hold ELSE HasRoom(r) /\ IsLowestFree(s, r)
            /\ reg' = Compacted([reg EXCEPT ![r] = [row EXCEPT !.fee = "paid", !.slot = s, !.left = Never,
                    !.hold = 0, !.wait = IF reg[r].status = "waitlisted" THEN 0 ELSE @]],
                         IF reg[r].status = "waitlisted" THEN reg[r].wait ELSE 0)
      BY <1>6, <2>2 DEF WaivePayment
    <3> DEFINE wait == IF reg[r].status = "waitlisted" THEN 0 ELSE row.wait
               now == [row EXCEPT !.fee = "paid", !.slot = s, !.left = Never, !.hold = 0, !.wait = wait]
    <3>2. row \in Row
      BY <1>0, DecidedRow, FieldTypes
    <3>3. wait \in Nat /\ s \in Nat /\ Never \in Never .. LongestTimer
      BY <3>2, AnySlotType, FieldTypes DEF Row
    <3>4. reg' = Compacted([reg EXCEPT ![r] = now], IF reg[r].status = "waitlisted" THEN reg[r].wait ELSE 0)
      BY <3>1, <3>2 DEF Row
    <3> HIDE DEF wait
    <3>5. now \in Row
      BY <3>2, <3>3 DEF Row
    <3> HIDE DEF now
    <3>6. OthersGainNothing(r)
      BY <1>0, <3>4, <3>5, CompactedOthers
    <3>7. reg[r].hold # 0 \/ HasRoom(r)
      BY <3>1
    <3> QED BY <3>6, <3>7, RoomForOne, NobodyEnters DEF Occupies
  <2> QED BY <2>1, <2>2
<1>7. ASSUME NEW verdict \in StaffVerdicts, StaffVerifies(r, verdict)
      PROVE  WithinCapacity
  <2> DEFINE row == [reg[r] EXCEPT !.verif = verdict]
  <2>1. reg' = [reg EXCEPT ![r] = IF verdict = "verified" THEN AutoApproved(row) ELSE row]
    BY <1>7 DEF StaffVerifies
  <2>2. verdict \in Verdict
    BY EntryAssumption DEF Verdict
  <2>3. row \in Row /\ (Occupies(row) => Occupies(reg[r]))
    BY <1>0, <2>2 DEF Row, Occupies, Active
  <2> HIDE DEF row
  <2> QED BY <1>0, <2>1, <2>3, AutoApprovedPlace, OneRowNobodyEnters
<1>8. CASE ReserveAdminSlot(r)
  <2>1. PICK now : reg' = [reg EXCEPT ![r] = now]
    BY <1>8 DEF ReserveAdminSlot
  <2>2. OthersGainNothing(r)
    BY <1>0, <2>1, OneRowOthers
  <2>3. HasRoom(r)
    BY <1>8 DEF ReserveAdminSlot
  <2> QED BY <2>2, <2>3, RoomForOne
<1>9. CASE ReleaseAdminSlot(r)
  <2>1. reg' = [reg EXCEPT ![r] = [@ EXCEPT !.hold = 0]]
    BY <1>9 DEF ReleaseAdminSlot
  <2>2. Occupies([reg[r] EXCEPT !.hold = 0]) => Occupies(reg[r])
    BY <1>0 DEF Occupies, Active, Row
  <2> QED BY <1>0, <2>1, <2>2, OneRowNobodyEnters
<1>10. CASE DeleteTeamRegistration(r)
  BY <1>10, EraseCapacity DEF DeleteTeamRegistration
<1> QED BY <1>1, <1>2, <1>3, <1>4, <1>5, <1>6, <1>7, <1>8, <1>9, <1>10 DEF StaffStep

LEMMA PaymentCapacity ==
    ASSUME IInv, NEW p \in Pays, PaymentStep(p)
    PROVE  WithinCapacity
<1> DEFINE r == pay[p].of
<1>0. RegInv /\ AllPayInv /\ PayInv(pay[p])
  BY DEF IInv, AllPayInv
<1>1. r = NoReg => pay[p].status = "none"
  BY <1>0 DEF PayInv
<1>2. r \in Regs /\ RowInv(reg[r]) /\ reg[r] \in Row
  BY <1>0, <1>1 DEF PaymentStep, Notify, AcceptPayHere, MarkRefunded, SubmitBankTransferProof,
     ApproveBankTransfer, RejectBankTransfer, ReopenExpiredPayment, AwaitsReview, PayInv, Payment, RegInv
<1>3. ASSUME NEW report \in Reports, Notify(p, report)
      PROVE  WithinCapacity
  <2>1. PICK conflict \in {FALSE, TeamEntry} :
          reg' = IF NotifiedStatus(p, report.code, conflict) = pay[p].status THEN reg
                 ELSE [reg EXCEPT ![r] = Settled(@, NotifiedStatus(p, report.code, conflict))]
    BY <1>3 DEF Notify
  <2> DEFINE applied == NotifiedStatus(p, report.code, conflict)
  <2>2. applied \in PayStatus /\ (applied = "paid" => Payable(p) \/ pay[p].status = "paid")
    BY <1>0, NotifiedStatusType, ReportCode, EntryAssumption
  <2>3. reg' = IF applied = pay[p].status THEN reg ELSE [reg EXCEPT ![r] = Settled(@, applied)]
    BY <2>1
  <2> HIDE DEF applied
  <2>4. CASE applied = pay[p].status
    BY <2>3, <2>4 DEF WithinCapacity, Occupants
  <2>5. CASE applied # pay[p].status /\ applied = "paid"
    BY <1>0, <1>2, <2>2, <2>3, <2>5, OneRowOthers, RoomForOne DEF Payable
  <2>6. CASE applied # pay[p].status /\ applied # "paid"
    <3>1. Provider = "payhere"
      BY <1>3 DEF Notify
    <3>2. Occupies(Settled(reg[r], applied)) => Occupies(reg[r])
      BY <1>2, <2>2, <2>6, <3>1, SettledPlace
    <3> QED BY <1>0, <1>2, <2>3, <2>6, <3>2, OneRowNobodyEnters
  <2> QED BY <2>4, <2>5, <2>6
<1>4. CASE AcceptPayHere(p) \/ ApproveBankTransfer(p) \/ ReopenExpiredPayment(p)
  <2>1. PICK now : reg' = [reg EXCEPT ![r] = now]
    <3>1. CASE AcceptPayHere(p)
      BY <3>1 DEF AcceptPayHere
    <3>2. CASE ApproveBankTransfer(p)
      BY <3>2 DEF ApproveBankTransfer
    <3>3. CASE ReopenExpiredPayment(p)
      BY <3>3 DEF ReopenExpiredPayment
    <3> QED BY <1>4, <3>1, <3>2, <3>3
  <2>3. OthersGainNothing(r)
    BY <1>0, <1>2, <2>1, OneRowOthers
  <2>2. HasRoom(r)
    BY <1>4 DEF AcceptPayHere, ApproveBankTransfer, ReopenExpiredPayment
  <2> QED BY <1>2, <2>2, <2>3, RoomForOne
<1>5. CASE MarkRefunded(p)
  <2>1. reg' = [reg EXCEPT ![r] = Settled(@, "refunded")] /\ "refunded" \in PayStatus
    BY <1>5 DEF MarkRefunded, PayStatus, Reversed
  <2>2. Occupies(Settled(reg[r], "refunded")) => Occupies(reg[r])
    BY <1>2, <2>1, SettledPlace
  <2> QED BY <1>0, <1>2, <2>1, <2>2, OneRowNobodyEnters
<1>6. CASE SubmitBankTransferProof(p)
  <2>1. reg' = [reg EXCEPT ![r] = [@ EXCEPT !.fee = "pending", !.left = ReviewTime]] /\ reg[r].left > 0
    BY <1>6 DEF SubmitBankTransferProof
  <2>2. Occupies([reg[r] EXCEPT !.fee = "pending", !.left = ReviewTime]) => Occupies(reg[r])
    BY <1>2, <2>1 DEF Occupies, Active, RowInv, Row
  <2> QED BY <1>0, <1>2, <2>1, <2>2, OneRowNobodyEnters
<1>7. CASE RejectBankTransfer(p)
  <2>1. reg' = [reg EXCEPT ![r] = [@ EXCEPT !.fee = "unpaid", !.left = Never, !.slot = 0, !.hold = 0]]
    BY <1>7 DEF RejectBankTransfer
  <2>2. ~Occupies([reg[r] EXCEPT !.fee = "unpaid", !.left = Never, !.slot = 0, !.hold = 0])
    BY <1>2 DEF Occupies, Active, Row
  <2> QED BY <1>0, <1>2, <2>1, <2>2, OneRowNobodyEnters
<1> QED BY <1>3, <1>4, <1>5, <1>6, <1>7 DEF PaymentStep

\* In every step, only the staff decisions that do not count capacity seat
\* somebody in a full tournament.
LEMMA NextCapacity ==
    ASSUME IInv, Next
    PROVE  WithinCapacity
<1>1. ASSUME NEW r \in Regs, EntrantStep(r) \/ StaffStep(r) PROVE WithinCapacity
  BY <1>1, EntrantCapacity, StaffCapacity
<1>2. ASSUME NEW p \in Pays, PaymentStep(p) PROVE WithinCapacity
  BY <1>2, PaymentCapacity
<1>3. ASSUME NEW r \in Regs, ExpireReservation(r) PROVE WithinCapacity
  <2>1. reg' = [reg EXCEPT ![r] = [@ EXCEPT !.fee = "unpaid", !.left = Never, !.slot = 0]]
    BY <1>3 DEF ExpireReservation
  <2>2. Occupies([reg[r] EXCEPT !.fee = "unpaid", !.left = Never, !.slot = 0]) => Occupies(reg[r])
    BY DEF IInv, RegInv, Row, Occupies, Active
  <2> QED BY <2>1, <2>2, OneRowNobodyEnters DEF IInv
<1>4. CASE Tick
  <2>1. \A q \in Regs : Occupies(reg'[q]) => Occupies(reg[q])
    BY <1>4 DEF Tick, IInv, RegInv, Row, Occupies, Active
  <2> QED BY <2>1 DEF WithinCapacity, Occupants, Occupies
<1>5. CASE DropForm \/ DropDesk
  BY <1>5 DEF DropForm, DropDesk, WithinCapacity, Occupants
<1> QED BY <1>1, <1>2, <1>3, <1>4, <1>5 DEF Next

-----------------------------------------------------------------------------
(* What a step may write into a row: slots, approval and the queue.        *)

\* A place that a row gains in a numbered tournament was free.
TakesFreeSlots(r, now) ==
    Provider = "bank_transfer" =>
        \A x \in Places(now) : x \in Places(reg[r]) \/ x \notin UsedSlots(r)

\* A row that becomes complete does not stay pending.
LeftForNobody(r, now) == AutoApprove /\ Complete(now) => Complete(reg[r])

\* A waiting row keeps its position, and a newcomer takes the next one.
StaysInLine(r, now) ==
    now.status = "waitlisted" =>
        IF reg[r].status = "waitlisted" THEN now.wait = reg[r].wait ELSE IsNextPosition(now.wait)

Orderly(r, now) == TakesFreeSlots(r, now) /\ LeftForNobody(r, now) /\ StaysInLine(r, now)

\* The step writes at most the row of r, and writes it orderly.
WritesOrderly(r) == UNCHANGED reg \/ \E now : reg' = [reg EXCEPT ![r] = now] /\ Orderly(r, now)

\* The slots that findLowestAvailableSlotNumber avoids are the places of the
\* other entrants.
LEMMA UsedSlotsArePlaces ==
    ASSUME NEW r \in Regs
    PROVE  UsedSlots(r) = UNION {Places(reg[q]) : q \in Regs \ {r}}
BY DEF UsedSlots, ActiveOthers, HeldOthers, Places

LEMMA NoPlaces ==
    ASSUME NEW r, NEW now, now.hold = 0, ~Active(now) \/ now.slot = 0
    PROVE  TakesFreeSlots(r, now)
BY DEF TakesFreeSlots, Places

\* The slot a payment is quoted for is the entrant's own or free.
LEMMA QuotedSlotFree ==
    ASSUME NEW r, NEW now, NEW s, now.hold = 0, now.slot = s, IsQuotedSlot(s, r)
    PROVE  TakesFreeSlots(r, now)
BY DEF TakesFreeSlots, Places, IsQuotedSlot, IsLowestFree

\* A row that keeps its slot and its hold, and does not become active.
LEMMA SamePlaces ==
    ASSUME NEW r, NEW now, now.hold \in {0, reg[r].hold}, now.slot = reg[r].slot,
           Active(now) => Active(reg[r])
    PROVE  TakesFreeSlots(r, now)
BY DEF TakesFreeSlots, Places

\* Automatic approval leaves no complete row, and takes no place in the queue.
LEMMA ApprovedOrderly ==
    ASSUME NEW r, NEW row, row \in Row, TakesFreeSlots(r, row), StaysInLine(r, row)
    PROVE  Orderly(r, AutoApproved(row))
<1> DEFINE now == AutoApproved(row)
<1>1. now = row \/ (now = [row EXCEPT !.status = "approved"] /\ row.status = "pending")
  BY DEF AutoApproved
<1>2. /\ now.hold = row.hold /\ now.slot = row.slot /\ now.wait = row.wait
      /\ now.fee = row.fee /\ now.left = row.left
      /\ now.status = "waitlisted" => row.status = "waitlisted"
      /\ Active(now) => Active(row)
  <2> HIDE DEF now
  <2>1. CASE now = row
    BY <2>1
  <2>2. CASE now = [row EXCEPT !.status = "approved"] /\ row.status = "pending"
    BY <2>2 DEF Row, Active
  <2> QED BY <1>1, <2>1, <2>2
<1>3. ~(AutoApprove /\ Complete(now))
  <2>1. CASE now.status = "approved"
    BY <2>1 DEF Complete
  <2>2. CASE now = row
    BY <1>2, <2>2 DEF AutoApproved, Complete, Row
  <2> QED BY <1>1, <2>1, <2>2 DEF Row
<1> HIDE DEF now
<1>4. Places(now) \subseteq Places(row)
  BY <1>2 DEF Places
<1>5. Orderly(r, now)
  BY <1>2, <1>3, <1>4 DEF Orderly, TakesFreeSlots, LeftForNobody, StaysInLine
<1> QED BY <1>5 DEF now

LEMMA EraseOrderly ==
    ASSUME NEW r \in Regs, Erase(r)
    PROVE  WritesOrderly(r)
<1>1. TakesFreeSlots(r, Absent)
  BY NoPlaces DEF Absent
<1>2. Orderly(r, Absent)
  BY <1>1 DEF Absent, Orderly, LeftForNobody, StaysInLine, Complete
<1> QED BY <1>2 DEF Erase, WritesOrderly

LEMMA EntrantOrderly ==
    ASSUME IInv, NEW r \in Regs, EntrantStep(r)
    PROVE  WritesOrderly(r)
<1>0. RegInv /\ RowInv(reg[r]) /\ reg[r] \in Row
  BY DEF IInv, RegInv
<1>1. CASE Register(r)
  <2>1. PICK answers \in {"open", "accepted"} :
          LET row == [Absent EXCEPT !.invites = answers,
                         !.verif = IF answers = "accepted" THEN "verified" ELSE "pending"]
          IN Admit(r, row) \/ Enqueue(r, row)
    BY <1>1 DEF Register
  <2> DEFINE row == [Absent EXCEPT !.invites = answers,
                        !.verif = IF answers = "accepted" THEN "verified" ELSE "pending"]
  <2>2. row \in Row /\ row.hold = 0 /\ row.slot = 0 /\ row.fee = "unpaid"
    BY AbsentRow, FieldTypes DEF Absent, RowInv, Row
  <2>3. Admit(r, row) \/ Enqueue(r, row)
    BY <2>1
  <2>0. reg[r].status = "none"
    BY <1>1 DEF Register
  <2> HIDE DEF row
  <2>4. CASE Admit(r, row)
    <3> DEFINE fee == IF PaysOnEntry THEN "pending" ELSE IF FeeCharged THEN "unpaid" ELSE "paid"
               left == IF PaysOnEntry THEN HoldTime ELSE Never
    <3>1. PICK s \in AnySlot :
            /\ IF PaysOnEntry THEN IsQuotedSlot(s, r) ELSE s = 0
            /\ reg' = [reg EXCEPT ![r] = AutoApproved([row EXCEPT
                    !.status = "pending", !.fee = fee, !.left = left, !.slot = s])]
      BY <2>4 DEF Admit
    <3>2. fee \in {"unpaid", "pending", "paid"} /\ left \in Never .. LongestTimer /\ s \in Nat
      BY FieldTypes, AnySlotType
    <3> HIDE DEF fee, left
    <3> DEFINE now == [row EXCEPT !.status = "pending", !.fee = fee, !.left = left, !.slot = s]
    <3>3. now \in Row /\ now.hold = 0 /\ now.slot = s /\ now.status = "pending"
      BY <2>2, <3>2, FieldTypes DEF Row
    <3>4. reg' = [reg EXCEPT ![r] = AutoApproved(now)]
      BY <3>1
    <3> HIDE DEF now
    <3>5. TakesFreeSlots(r, now)
      BY <3>1, <3>3, NoPlaces, QuotedSlotFree
    <3>6. StaysInLine(r, now)
      BY <3>3 DEF StaysInLine
    <3> QED BY <3>3, <3>4, <3>5, <3>6, ApprovedOrderly DEF WritesOrderly
  <2>5. CASE Enqueue(r, row)
    <3>1. PICK n \in 1 .. MaxPosition :
            /\ IsNextPosition(n)
            /\ reg' = [reg EXCEPT ![r] = [row EXCEPT !.status = "waitlisted", !.wait = n]]
      BY <2>5 DEF Enqueue
    <3> DEFINE now == [row EXCEPT !.status = "waitlisted", !.wait = n]
    <3>2. now.status = "waitlisted" /\ now.hold = 0 /\ now.slot = 0 /\ now.wait = n
      BY <2>2 DEF Row
    <3>3. reg' = [reg EXCEPT ![r] = now]
      BY <3>1
    <3> HIDE DEF now
    <3>4. TakesFreeSlots(r, now)
      BY <3>2, NoPlaces
    <3>5. Orderly(r, now)
      BY <2>0, <3>1, <3>2, <3>4 DEF Orderly, LeftForNobody, StaysInLine, Complete
    <3> QED BY <3>3, <3>5 DEF WritesOrderly
  <2> QED BY <2>3, <2>4, <2>5
<1>2. CASE \E path \in {"resume", "retry"} : LoadEntry(r, path)
  BY <1>2 DEF LoadEntry, WritesOrderly
<1>3. CASE ResumePayment(r)
  <2>1. PICK s \in AnySlot :
        /\ IsQuotedSlot(s, r)
        /\ reg' = [reg EXCEPT ![r] = [@ EXCEPT
               !.fee = "pending", !.verif = RosterVerdict(reg[r]),
               !.left = HoldTime, !.slot = s, !.hold = 0]]
    BY <1>3 DEF ResumePayment
  <2> DEFINE now == [reg[r] EXCEPT !.fee = "pending", !.verif = RosterVerdict(reg[r]),
                                   !.left = HoldTime, !.slot = s, !.hold = 0]
  <2>2. /\ now.fee = "pending" /\ now.slot = s /\ now.hold = 0
        /\ now.status = reg[r].status /\ now.wait = reg[r].wait
    BY <1>0 DEF Row
  <2>3. reg' = [reg EXCEPT ![r] = now]
    BY <2>1
  <2> HIDE DEF now
  <2>4. Orderly(r, now)
    BY <2>1, <2>2, QuotedSlotFree DEF Orderly, LeftForNobody, StaysInLine, Complete
  <2> QED BY <2>3, <2>4 DEF WritesOrderly
<1>4. CASE RetryEntry(r)
  <2>1. PICK s \in AnySlot, answers \in {"open", "accepted"} :
        /\ IsQuotedSlot(s, r)
        /\ reg' = [reg EXCEPT ![r] = [@ EXCEPT
                !.status = "pending", !.fee = "pending", !.left = HoldTime,
                !.slot = s, !.hold = 0, !.invites = answers,
                !.verif = IF TeamEntry /\ answers = "accepted" THEN "verified" ELSE "pending"]]
    BY <1>4 DEF RetryEntry
  <2> DEFINE now == [reg[r] EXCEPT
                !.status = "pending", !.fee = "pending", !.left = HoldTime,
                !.slot = s, !.hold = 0, !.invites = answers,
                !.verif = IF TeamEntry /\ answers = "accepted" THEN "verified" ELSE "pending"]
  <2>2. now.fee = "pending" /\ now.slot = s /\ now.hold = 0 /\ now.status = "pending"
    BY <1>0 DEF Row
  <2>3. reg' = [reg EXCEPT ![r] = now]
    BY <2>1
  <2> HIDE DEF now
  <2>4. Orderly(r, now)
    BY <2>1, <2>2, QuotedSlotFree DEF Orderly, LeftForNobody, StaysInLine, Complete
  <2> QED BY <2>3, <2>4 DEF WritesOrderly
<1>5. CASE RetryIntoWaitlist(r)
  <2>1. PICK n \in 1 .. MaxPosition :
         /\ IF reg[r].status = "waitlisted" THEN n = reg[r].wait ELSE IsNextPosition(n)
         /\ reg' = [reg EXCEPT ![r] = [@ EXCEPT
                !.status = "waitlisted", !.fee = "unpaid", !.left = Never,
                !.slot = 0, !.hold = 0, !.wait = n]]
    BY <1>5 DEF RetryIntoWaitlist
  <2> DEFINE now == [reg[r] EXCEPT !.status = "waitlisted", !.fee = "unpaid", !.left = Never,
                                   !.slot = 0, !.hold = 0, !.wait = n]
  <2>2. now.status = "waitlisted" /\ now.slot = 0 /\ now.hold = 0 /\ now.wait = n
    BY <1>0 DEF Row
  <2>3. reg' = [reg EXCEPT ![r] = now]
    BY <2>1
  <2> HIDE DEF now
  <2>4. TakesFreeSlots(r, now)
    BY <2>2, NoPlaces
  <2>5. Orderly(r, now)
    BY <2>1, <2>2, <2>4 DEF Orderly, LeftForNobody, StaysInLine, Complete
  <2> QED BY <2>3, <2>5 DEF WritesOrderly
<1>6. CASE CancelUnpaidRegistration(r)
  BY <1>6, EraseOrderly DEF CancelUnpaidRegistration
<1>7. ASSUME NEW answers \in {"open", "accepted", "declined"}, RosterAnswers(r, answers)
      PROVE  WritesOrderly(r)
  <2> DEFINE row == [reg[r] EXCEPT !.invites = answers]
             verdict == IF answers = "open" THEN "pending" ELSE RosterVerdict(row)
             now == [row EXCEPT !.verif = verdict]
  <2>1. reg' = [reg EXCEPT ![r] = AutoApproved(now)]
    BY <1>7 DEF RosterAnswers
  <2>2. RowInv(row) /\ row.status = reg[r].status /\ row.hold = reg[r].hold
        /\ row.slot = reg[r].slot /\ row.wait = reg[r].wait /\ row.fee = reg[r].fee
        /\ row.left = reg[r].left
    BY <1>0 DEF RowInv, Row
  <2>3. verdict \in Verdict
    BY <2>2, RosterVerdictType, FieldTypes
  <2> HIDE DEF row, verdict
  <2>4. /\ now \in Row /\ now.status = reg[r].status /\ now.hold = reg[r].hold
        /\ now.slot = reg[r].slot /\ now.wait = reg[r].wait
        /\ now.fee = reg[r].fee /\ now.left = reg[r].left
    BY <2>2, <2>3 DEF RowInv, Row
  <2> HIDE DEF now
  <2>5. TakesFreeSlots(r, now)
    BY <2>4, SamePlaces DEF Active
  <2>6. StaysInLine(r, now)
    BY <2>4 DEF StaysInLine
  <2> QED BY <2>1, <2>4, <2>5, <2>6, ApprovedOrderly DEF WritesOrderly
<1> QED BY <1>1, <1>2, <1>3, <1>4, <1>5, <1>6, <1>7 DEF EntrantStep

LEMMA PaymentOrderly ==
    ASSUME IInv, NEW p \in Pays, PaymentStep(p)
    PROVE  pay[p].of \in Regs /\ WritesOrderly(pay[p].of)
<1>0. RegInv /\ AllPayInv /\ PayInv(pay[p])
  BY DEF IInv, AllPayInv
<1>1. pay[p].of \in Regs
  BY <1>0 DEF PaymentStep, Notify, AcceptPayHere, MarkRefunded, SubmitBankTransferProof,
     ApproveBankTransfer, RejectBankTransfer, ReopenExpiredPayment, AwaitsReview, PayInv, Payment
<1> PICK r \in Regs : r = pay[p].of
  BY <1>1
<1>2. RowInv(reg[r]) /\ reg[r] \in Row
  BY <1>0 DEF RegInv
<1>3. ASSUME NEW outcome, reg' = [reg EXCEPT ![r] = Settled(@, outcome)],
             outcome = "paid" /\ Provider = "bank_transfer" => reg[r].left > 0,
             outcome = "pending" => Provider = "payhere"
      PROVE  WritesOrderly(r)
  <2> DEFINE now == Settled(reg[r], outcome)
  <2>1. reg' = [reg EXCEPT ![r] = now]
    BY <1>2, <1>3
  <2>2. CASE outcome = "paid"
    <3> DEFINE paid == [reg[r] EXCEPT !.hold = 0, !.fee = "paid", !.left = Never]
    <3>1. now = AutoApproved(paid)
      BY <2>2 DEF Settled, Reversed
    <3>2. /\ paid \in Row /\ paid.hold = 0 /\ paid.slot = reg[r].slot
          /\ paid.status = reg[r].status /\ paid.wait = reg[r].wait
      BY <1>2, FieldTypes DEF Row
    <3> HIDE DEF now, paid
    <3>3. TakesFreeSlots(r, paid)
      <4>1. CASE Provider = "bank_transfer"
        <5>1. Active(paid) => Active(reg[r])
          BY <1>2, <1>3, <2>2, <3>2, <4>1 DEF Active, RowInv
        <5> QED BY <3>2, <5>1, SamePlaces
      <4>2. CASE Provider # "bank_transfer"
        BY <4>2 DEF TakesFreeSlots
      <4> QED BY <4>1, <4>2
    <3>4. StaysInLine(r, paid)
      BY <3>2 DEF StaysInLine
    <3> QED BY <2>1, <3>1, <3>2, <3>3, <3>4, ApprovedOrderly DEF WritesOrderly
  <2>3. CASE outcome \in Reversed \cup {"pending"}
    <3>1. /\ now.fee = IF outcome = "pending" THEN "pending" ELSE "unpaid"
          /\ now.hold = 0 /\ now.status = reg[r].status /\ now.wait = reg[r].wait
      BY <1>2, <2>3 DEF Settled, Reversed, Row
    <3> HIDE DEF now
    <3>2. TakesFreeSlots(r, now)
      <4>1. CASE outcome = "pending"
        BY <1>3, <4>1, EntryAssumption DEF TakesFreeSlots
      <4>2. CASE outcome # "pending"
        <5>1. ~Active(now)
          BY <3>1, <4>2 DEF Active
        <5> QED BY <3>1, <5>1, NoPlaces
      <4> QED BY <4>1, <4>2
    <3>3. Orderly(r, now)
      BY <3>1, <3>2 DEF Orderly, LeftForNobody, StaysInLine, Complete
    <3> QED BY <2>1, <3>3 DEF WritesOrderly
  <2>4. CASE outcome \notin Reversed \cup {"paid", "pending"}
    <3>1. now = [reg[r] EXCEPT !.hold = 0]
      BY <2>4 DEF Settled
    <3>2. /\ now.fee = reg[r].fee /\ now.hold = 0 /\ now.status = reg[r].status
          /\ now.wait = reg[r].wait /\ now.slot = reg[r].slot /\ now.left = reg[r].left
          /\ now.verif = reg[r].verif
      BY <1>2, <3>1 DEF Row
    <3> HIDE DEF now
    <3>3. TakesFreeSlots(r, now)
      BY <3>2, SamePlaces DEF Active
    <3>4. Orderly(r, now)
      BY <3>2, <3>3 DEF Orderly, LeftForNobody, StaysInLine, Complete
    <3> QED BY <2>1, <3>4 DEF WritesOrderly
  <2> QED BY <2>2, <2>3, <2>4
<1>4. ASSUME NEW report \in Reports, Notify(p, report)
      PROVE  WritesOrderly(r)
  <2>1. PICK conflict \in {FALSE, TeamEntry} :
          reg' = IF NotifiedStatus(p, report.code, conflict) = pay[p].status THEN reg
                 ELSE [reg EXCEPT ![r] = Settled(@, NotifiedStatus(p, report.code, conflict))]
    BY <1>4 DEF Notify
  <2>2. Provider = "payhere"
    BY <1>4 DEF Notify
  <2>3. CASE NotifiedStatus(p, report.code, conflict) = pay[p].status
    BY <2>1, <2>3 DEF WritesOrderly
  <2>4. CASE NotifiedStatus(p, report.code, conflict) # pay[p].status
    BY <1>3, <2>1, <2>2, <2>4
  <2> QED BY <2>3, <2>4
<1>5. CASE AcceptPayHere(p) \/ ApproveBankTransfer(p)
  <2>1. reg' = [reg EXCEPT ![r] = Settled(@, "paid")]
    BY <1>5 DEF AcceptPayHere, ApproveBankTransfer
  <2>2. Provider = "bank_transfer" => reg[r].left > 0
    BY <1>5 DEF AcceptPayHere, ApproveBankTransfer
  <2>3. ("paid" = "paid" /\ Provider = "bank_transfer" => reg[r].left > 0)
        /\ ("paid" = "pending" => Provider = "payhere")
    BY <2>2
  <2> QED BY <1>3, <2>1, <2>3
<1>6. CASE MarkRefunded(p)
  BY <1>3, <1>6 DEF MarkRefunded
<1>7. CASE SubmitBankTransferProof(p)
  <2>1. reg' = [reg EXCEPT ![r] = [@ EXCEPT !.fee = "pending", !.left = ReviewTime]] /\ reg[r].left > 0
    BY <1>7 DEF SubmitBankTransferProof
  <2> DEFINE now == [reg[r] EXCEPT !.fee = "pending", !.left = ReviewTime]
  <2>2. /\ now.fee = "pending" /\ now.hold = reg[r].hold /\ now.slot = reg[r].slot
        /\ now.status = reg[r].status /\ now.wait = reg[r].wait
    BY <1>2 DEF Row
  <2>3. reg' = [reg EXCEPT ![r] = now]
    BY <2>1
  <2> HIDE DEF now
  <2>4. Active(now) => Active(reg[r])
    BY <1>2, <2>1, <2>2 DEF Active, RowInv
  <2>5. Orderly(r, now)
    BY <2>2, <2>4, SamePlaces DEF Orderly, LeftForNobody, StaysInLine, Complete
  <2> QED BY <2>3, <2>5 DEF WritesOrderly
<1>8. CASE RejectBankTransfer(p)
  <2>1. reg' = [reg EXCEPT ![r] = [@ EXCEPT !.fee = "unpaid", !.left = Never, !.slot = 0, !.hold = 0]]
    BY <1>8 DEF RejectBankTransfer
  <2> DEFINE now == [reg[r] EXCEPT !.fee = "unpaid", !.left = Never, !.slot = 0, !.hold = 0]
  <2>2. /\ now.fee = "unpaid" /\ now.hold = 0 /\ now.slot = 0
        /\ now.status = reg[r].status /\ now.wait = reg[r].wait
    BY <1>2 DEF Row
  <2>3. reg' = [reg EXCEPT ![r] = now]
    BY <2>1
  <2> HIDE DEF now
  <2>4. Orderly(r, now)
    BY <2>2, NoPlaces DEF Orderly, LeftForNobody, StaysInLine, Complete
  <2> QED BY <2>3, <2>4 DEF WritesOrderly
<1>9. CASE ReopenExpiredPayment(p)
  <2>1. PICK s \in AnySlot :
         /\ IF Provider = "bank_transfer" THEN IsLowestFree(s, r) ELSE s = 0
         /\ reg' = [reg EXCEPT ![r] = [@ EXCEPT !.fee = "pending", !.slot = s,
                        !.left = IF pay[p].proof THEN ReviewTime ELSE HoldTime]]
    BY <1>9 DEF ReopenExpiredPayment
  <2> DEFINE now == [reg[r] EXCEPT !.fee = "pending", !.slot = s,
                        !.left = IF pay[p].proof THEN ReviewTime ELSE HoldTime]
  <2>2. /\ now.fee = "pending" /\ now.hold = reg[r].hold /\ now.slot = s
        /\ now.status = reg[r].status /\ now.wait = reg[r].wait
    BY <1>2 DEF Row
  <2>3. reg' = [reg EXCEPT ![r] = now]
    BY <2>1
  <2> HIDE DEF now
  <2>4. TakesFreeSlots(r, now)
    BY <2>1, <2>2 DEF TakesFreeSlots, Places, IsLowestFree
  <2>5. Orderly(r, now)
    BY <2>2, <2>4 DEF Orderly, LeftForNobody, StaysInLine, Complete
  <2> QED BY <2>3, <2>5 DEF WritesOrderly
<1>10. WritesOrderly(r)
  BY <1>4, <1>5, <1>6, <1>7, <1>8, <1>9 DEF PaymentStep
<1> QED BY <1>10

\* A row that leaves the queue is written and the queue compacted behind it.
LeavesQueue(r, now) ==
    /\ now \in Row /\ now.status # "waitlisted"
    /\ reg[r].status = "waitlisted"
    /\ reg' = Compacted([reg EXCEPT ![r] = now], reg[r].wait)
    /\ WaitlistIndex(reg')

\* A step about r, in which staff may force a slot and leave a complete row
\* pending, and nothing may disturb the queue.
HandlesOrderly(r) ==
    \/ UNCHANGED reg
    \/ \E now : /\ reg' = [reg EXCEPT ![r] = now] \/ LeavesQueue(r, now)
                /\ StaysInLine(r, now)
                /\ TakesFreeSlots(r, now) \/ StaffForces
                /\ LeftForNobody(r, now) \/ StaffSetsStatus(r) \/ StaffPromotes(r)

LEMMA WritesAreHandled ==
    ASSUME NEW r, WritesOrderly(r)
    PROVE  HandlesOrderly(r)
BY DEF WritesOrderly, HandlesOrderly, Orderly

LEMMA StaffOrderly ==
    ASSUME IInv, NEW r \in Regs, StaffStep(r)
    PROVE  HandlesOrderly(r)
<1>0. RegInv /\ RowInv(reg[r]) /\ reg[r] \in Row /\ desk.to \in RegStatus
  BY DEF IInv, RegInv, RequestInv
<1>1. CASE \E to \in StaffTargets : LoadForStatus(r, to)
  BY <1>1 DEF LoadForStatus, HandlesOrderly
<1>2. CASE StaffWaitlists(r)
  <2>1. PICK n \in 1 .. MaxPosition, row \in Decided(reg[r], "waitlisted") :
         /\ IF reg[r].status = "waitlisted" THEN n = reg[r].wait ELSE IsNextPosition(n)
         /\ reg' = [reg EXCEPT ![r] = [row EXCEPT !.wait = n, !.slot = 0, !.left = Never, !.hold = 0]]
    BY <1>2 DEF StaffWaitlists
  <2> DEFINE now == [row EXCEPT !.wait = n, !.slot = 0, !.left = Never, !.hold = 0]
  <2>2. row \in Row /\ row.status = "waitlisted"
    BY <1>0, DecidedRow, FieldTypes
  <2>3. now.status = "waitlisted" /\ now.wait = n /\ now.hold = 0 /\ now.slot = 0
    BY <2>2 DEF Row
  <2>4. reg' = [reg EXCEPT ![r] = now]
    BY <2>1
  <2> HIDE DEF now
  <2>5. TakesFreeSlots(r, now)
    BY <2>3, NoPlaces
  <2>6. LeftForNobody(r, now) /\ StaysInLine(r, now)
    BY <2>1, <2>3 DEF LeftForNobody, StaysInLine, Complete
  <2> QED BY <2>4, <2>5, <2>6 DEF HandlesOrderly
<1>3. CASE StaffPromotes(r)
  <2>1. PICK s \in AnySlot, row \in Decided(reg[r], desk.to) :
           /\ IsLowestFree(s, r)
           /\ reg' = Compacted([reg EXCEPT ![r] = [row EXCEPT !.slot = s, !.wait = 0,
                        !.fee = IF FeeCharged THEN @ ELSE "paid"]], reg[r].wait)
    BY <1>3 DEF StaffPromotes
  <2> DEFINE fee == IF FeeCharged THEN row.fee ELSE "paid"
             now == [row EXCEPT !.slot = s, !.wait = 0, !.fee = fee]
  <2>2. row \in Row /\ row.status = desk.to /\ row.hold = reg[r].hold
    BY <1>0, DecidedRow
  <2>3. fee \in {"unpaid", "pending", "paid"} /\ s \in Nat
    BY <2>2, AnySlotType DEF Row
  <2>4. reg' = Compacted([reg EXCEPT ![r] = now], reg[r].wait)
    BY <2>1, <2>2 DEF Row
  <2> HIDE DEF fee
  <2>5. now \in Row /\ now.status = desk.to /\ now.hold = reg[r].hold /\ now.slot = s
    BY <2>2, <2>3 DEF Row
  <2> HIDE DEF now
  <2>6. reg[r].status = "waitlisted" /\ desk.to # "waitlisted" /\ WaitlistIndex(reg')
    BY <1>3 DEF StaffPromotes
  <2>7. LeavesQueue(r, now) /\ StaysInLine(r, now)
    BY <2>4, <2>5, <2>6 DEF LeavesQueue, StaysInLine
  <2>8. TakesFreeSlots(r, now)
    BY <2>1, <2>5 DEF TakesFreeSlots, Places, IsLowestFree
  <2> QED BY <1>3, <2>7, <2>8 DEF HandlesOrderly
<1>4. CASE StaffRejectsFromWaitlist(r)
  <2>1. PICK row \in Decided(reg[r], "rejected") :
          reg' = Compacted([reg EXCEPT ![r] = [row EXCEPT !.wait = 0]], reg[r].wait)
    BY <1>4 DEF StaffRejectsFromWaitlist
  <2> DEFINE now == [row EXCEPT !.wait = 0]
  <2>2. row \in Row /\ row.status = "rejected" /\ row.hold = reg[r].hold /\ row.slot = reg[r].slot
    BY <1>0, DecidedRow, FieldTypes
  <2>3. now \in Row /\ now.status = "rejected" /\ now.hold = reg[r].hold /\ now.slot = reg[r].slot
    BY <2>2 DEF Row
  <2>4. reg' = Compacted([reg EXCEPT ![r] = now], reg[r].wait)
    BY <2>1
  <2> HIDE DEF now
  <2>5. reg[r].status = "waitlisted" /\ WaitlistIndex(reg')
    BY <1>4 DEF StaffRejectsFromWaitlist
  <2>6. LeavesQueue(r, now) /\ StaysInLine(r, now)
    BY <2>3, <2>4, <2>5 DEF LeavesQueue, StaysInLine
  <2>7. TakesFreeSlots(r, now)
    BY <2>3, SamePlaces DEF Active
  <2>8. LeftForNobody(r, now)
    BY <2>3 DEF LeftForNobody, Complete
  <2> QED BY <2>6, <2>7, <2>8 DEF HandlesOrderly
<1>5. CASE StaffSetsStatus(r)
  <2>1. PICK row \in Decided(reg[r], desk.to) : reg' = [reg EXCEPT ![r] = row]
    BY <1>5 DEF StaffSetsStatus
  <2>2. row.status = desk.to /\ desk.to # "waitlisted"
    BY <1>0, <1>5, DecidedRow DEF StaffSetsStatus
  <2>3. StaysInLine(r, row) /\ StaffForces
    BY <1>5, <2>2 DEF StaysInLine, StaffForces
  <2> QED BY <1>5, <2>1, <2>3 DEF HandlesOrderly
<1>6. CASE WaivePayment(r)
  <2> DEFINE queued == reg[r].status = "waitlisted"
  <2>1. PICK s \in AnySlot, row \in Decided(reg[r], "approved") :
            /\ IF reg[r].slot # 0 THEN s = reg[r].slot
               ELSE IF reg[r].hold # 0 THEN s = reg[r].hold
               ELSE IsLowestFree(s, r)
            /\ reg' = Compacted([reg EXCEPT ![r] = [row EXCEPT !.fee = "paid", !.slot = s, !.left = Never,
                    !.hold = 0, !.wait = IF queued THEN 0 ELSE @]],
                         IF queued THEN reg[r].wait ELSE 0)
    BY <1>6 DEF WaivePayment
  <2> DEFINE wait == IF queued THEN 0 ELSE row.wait
             now == [row EXCEPT !.fee = "paid", !.slot = s, !.left = Never, !.hold = 0, !.wait = wait]
  <2>2. row \in Row /\ row.status = "approved"
    BY <1>0, DecidedRow, FieldTypes
  <2>3. wait \in Nat /\ s \in Nat /\ Never \in Never .. LongestTimer
    BY <2>2, AnySlotType, FieldTypes DEF Row
  <2>4. reg' = Compacted([reg EXCEPT ![r] = now], IF queued THEN reg[r].wait ELSE 0)
    BY <2>1, <2>2 DEF Row
  <2> HIDE DEF wait
  <2>5. now \in Row /\ now.status = "approved" /\ now.hold = 0 /\ now.slot = s
    BY <2>2, <2>3 DEF Row
  <2> HIDE DEF now
  <2>6. reg' = [reg EXCEPT ![r] = now] \/ LeavesQueue(r, now)
    <3>1. CASE queued
      BY <1>6, <2>4, <2>5, <3>1 DEF WaivePayment, LeavesQueue
    <3>2. CASE ~queued
      BY <1>0, <2>4, <3>2 DEF Compacted, RegInv
    <3> QED BY <3>1, <3>2
  <2>7. StaysInLine(r, now) /\ LeftForNobody(r, now)
    BY <2>5 DEF StaysInLine, LeftForNobody, Complete
  <2>8. TakesFreeSlots(r, now) \/ StaffForces
    <3>1. CASE reg[r].slot # 0
      BY <1>6, <3>1 DEF StaffForces
    <3>2. CASE reg[r].slot = 0
      BY <2>1, <2>5, <3>2 DEF TakesFreeSlots, Places, IsLowestFree
    <3> QED BY <3>1, <3>2
  <2> QED BY <2>6, <2>7, <2>8 DEF HandlesOrderly
<1>7. ASSUME NEW verdict \in StaffVerdicts, StaffVerifies(r, verdict)
      PROVE  HandlesOrderly(r)
  <2> DEFINE row == [reg[r] EXCEPT !.verif = verdict]
  <2>1. reg' = [reg EXCEPT ![r] = IF verdict = "verified" THEN AutoApproved(row) ELSE row]
    BY <1>7 DEF StaffVerifies
  <2>2. verdict \in Verdict
    BY EntryAssumption DEF Verdict
  <2>3. /\ row \in Row /\ row.status = reg[r].status /\ row.hold = reg[r].hold
        /\ row.slot = reg[r].slot /\ row.wait = reg[r].wait /\ row.verif = verdict
        /\ row.fee = reg[r].fee /\ row.left = reg[r].left
    BY <1>0, <2>2 DEF Row
  <2> HIDE DEF row
  <2>4. TakesFreeSlots(r, row)
    BY <2>3, SamePlaces DEF Active
  <2>5. StaysInLine(r, row)
    BY <2>3 DEF StaysInLine
  <2>6. verdict # "verified" => LeftForNobody(r, row)
    BY <2>3 DEF LeftForNobody, Complete
  <2>7. Orderly(r, AutoApproved(row))
    BY <2>3, <2>4, <2>5, ApprovedOrderly
  <2>8. WritesOrderly(r)
    BY <2>1, <2>4, <2>5, <2>6, <2>7 DEF WritesOrderly, Orderly
  <2> QED BY <2>8, WritesAreHandled
<1>8. CASE ReserveAdminSlot(r)
  <2>1. PICK s \in AnySlot : IsLowestFree(s, r) /\ reg' = [reg EXCEPT ![r].hold = s]
    BY <1>8 DEF ReserveAdminSlot
  <2> DEFINE now == [reg[r] EXCEPT !.hold = s]
  <2>2. /\ now.hold = s /\ now.status = reg[r].status /\ now.slot = reg[r].slot
        /\ now.wait = reg[r].wait /\ now.fee = reg[r].fee /\ now.left = reg[r].left
        /\ now.verif = reg[r].verif
    BY <1>0 DEF Row
  <2>3. reg' = [reg EXCEPT ![r] = now]
    BY <2>1
  <2> HIDE DEF now
  <2>4. TakesFreeSlots(r, now)
    BY <2>1, <2>2 DEF TakesFreeSlots, Places, IsLowestFree, Active
  <2>5. LeftForNobody(r, now) /\ StaysInLine(r, now)
    BY <2>2 DEF LeftForNobody, StaysInLine, Complete
  <2> QED BY <2>3, <2>4, <2>5 DEF HandlesOrderly
<1>9. CASE ReleaseAdminSlot(r)
  <2> DEFINE now == [reg[r] EXCEPT !.hold = 0]
  <2>1. /\ now.hold = 0 /\ now.status = reg[r].status /\ now.slot = reg[r].slot
        /\ now.wait = reg[r].wait /\ now.fee = reg[r].fee /\ now.left = reg[r].left
        /\ now.verif = reg[r].verif
    BY <1>0 DEF Row
  <2>2. reg' = [reg EXCEPT ![r] = now]
    BY <1>9 DEF ReleaseAdminSlot
  <2> HIDE DEF now
  <2>3. TakesFreeSlots(r, now)
    BY <2>1, SamePlaces DEF Active
  <2>4. LeftForNobody(r, now) /\ StaysInLine(r, now)
    BY <2>1 DEF LeftForNobody, StaysInLine, Complete
  <2> QED BY <2>2, <2>3, <2>4 DEF HandlesOrderly
<1>10. CASE DeleteTeamRegistration(r)
  BY <1>10, EraseOrderly, WritesAreHandled DEF DeleteTeamRegistration
<1> QED BY <1>1, <1>2, <1>3, <1>4, <1>5, <1>6, <1>7, <1>8, <1>9, <1>10 DEF StaffStep

LEMMA ExpireOrderly ==
    ASSUME IInv, NEW r \in Regs, ExpireReservation(r)
    PROVE  WritesOrderly(r)
<1> DEFINE now == [reg[r] EXCEPT !.fee = "unpaid", !.left = Never, !.slot = 0]
<1>1. /\ now.fee = "unpaid" /\ now.slot = 0 /\ now.hold = reg[r].hold
      /\ now.status = reg[r].status /\ now.wait = reg[r].wait
  BY DEF IInv, RegInv, Row
<1>2. reg' = [reg EXCEPT ![r] = now]
  BY DEF ExpireReservation
<1> HIDE DEF now
<1>3. TakesFreeSlots(r, now)
  BY <1>1 DEF TakesFreeSlots, Places
<1>4. Orderly(r, now)
  BY <1>1, <1>3 DEF Orderly, LeftForNobody, StaysInLine, Complete
<1> QED BY <1>2, <1>4 DEF WritesOrderly

\* Whatever the step, it is orderly or only lets time pass.
LEMMA StepsAreOrderly ==
    ASSUME IInv, Next
    PROVE  Tick \/ UNCHANGED reg \/ \E r \in Regs : HandlesOrderly(r)
<1>1. ASSUME NEW r \in Regs, EntrantStep(r) \/ StaffStep(r) \/ ExpireReservation(r)
      PROVE  HandlesOrderly(r)
  BY <1>1, EntrantOrderly, StaffOrderly, ExpireOrderly, WritesAreHandled
<1>2. ASSUME NEW p \in Pays, PaymentStep(p)
      PROVE  pay[p].of \in Regs /\ HandlesOrderly(pay[p].of)
  BY <1>2, PaymentOrderly, WritesAreHandled
<1>3. CASE DropForm \/ DropDesk
  BY <1>3 DEF DropForm, DropDesk
<1> QED BY <1>1, <1>2, <1>3 DEF Next

\* A position in the queue says nothing about slots or completeness.
LEMMA PositionOnly ==
    ASSUME NEW row \in Row, NEW n
    PROVE  /\ Places([row EXCEPT !.wait = n]) = Places(row)
           /\ Occupies([row EXCEPT !.wait = n]) <=> Occupies(row)
           /\ Complete([row EXCEPT !.wait = n]) <=> Complete(row)
           /\ [row EXCEPT !.wait = n].status = row.status
BY DEF Places, Active, Occupies, Complete, Row

\* A timer that runs on activates nothing.
LEMMA TimerOnly ==
    ASSUME NEW row \in Row, row.left \in Int, row.left > 0
    PROVE  /\ Places([row EXCEPT !.left = row.left - 1]) \subseteq Places(row)
           /\ Occupies([row EXCEPT !.left = row.left - 1]) => Occupies(row)
           /\ Complete([row EXCEPT !.left = row.left - 1]) => Complete(row)
           /\ [row EXCEPT !.left = row.left - 1].status = row.status
           /\ [row EXCEPT !.left = row.left - 1].wait = row.wait
BY DEF Places, Active, Occupies, Complete, Row

\* The other rows keep everything but, behind a row that left, their position.
LEMMA OthersKeep ==
    ASSUME RegInv, NEW r \in Regs, NEW now,
           reg' = [reg EXCEPT ![r] = now] \/ LeavesQueue(r, now)
    PROVE  /\ reg'[r] = now
           /\ \A q \in Regs \ {r} : /\ Places(reg'[q]) = Places(reg[q])
                                    /\ Occupies(reg'[q]) <=> Occupies(reg[q])
                                    /\ Complete(reg'[q]) <=> Complete(reg[q])
                                    /\ reg'[q].status = reg[q].status
<1>1. CASE reg' = [reg EXCEPT ![r] = now]
  BY <1>1 DEF RegInv
<1>2. CASE LeavesQueue(r, now)
  <2>1. reg'[r] = now
    BY <1>2 DEF LeavesQueue, Compacted, RegInv
  <2>2. ASSUME NEW q \in Regs \ {r}
        PROVE  reg'[q] = reg[q] \/ \E n : reg'[q] = [reg[q] EXCEPT !.wait = n]
    BY <1>2, <2>2 DEF LeavesQueue, Compacted, RegInv
  <2>3. ASSUME NEW q \in Regs \ {r}
        PROVE  /\ Places(reg'[q]) = Places(reg[q])
               /\ Occupies(reg'[q]) <=> Occupies(reg[q])
               /\ Complete(reg'[q]) <=> Complete(reg[q])
               /\ reg'[q].status = reg[q].status
    <3>1. reg[q] \in Row
      BY <2>3 DEF RegInv
    <3>2. CASE reg'[q] = reg[q]
      BY <3>2
    <3>3. ASSUME NEW n, reg'[q] = [reg[q] EXCEPT !.wait = n]
          PROVE  /\ Places(reg'[q]) = Places(reg[q])
                 /\ Occupies(reg'[q]) <=> Occupies(reg[q])
                 /\ Complete(reg'[q]) <=> Complete(reg[q])
                 /\ reg'[q].status = reg[q].status
      BY <3>1, <3>3, PositionOnly
    <3> QED BY <2>2, <2>3, <3>2, <3>3
  <2> QED BY <2>1, <2>3
<1> QED BY <1>1, <1>2

LEMMA TickKeeps ==
    ASSUME RegInv, Tick, NEW q \in Regs
    PROVE  /\ Places(reg'[q]) \subseteq Places(reg[q])
           /\ Occupies(reg'[q]) => Occupies(reg[q])
           /\ Complete(reg'[q]) => Complete(reg[q])
           /\ reg'[q].status = reg[q].status /\ reg'[q].wait = reg[q].wait
<1>1. reg[q] \in Row /\ reg[q].left \in Int
  BY DEF RegInv, Row, Never
<1>2. reg'[q] = reg[q] \/ (reg[q].left > 0 /\ reg'[q] = [reg[q] EXCEPT !.left = reg[q].left - 1])
  BY DEF Tick
<1>3. CASE reg'[q] = reg[q]
  BY <1>3
<1>4. CASE reg[q].left > 0 /\ reg'[q] = [reg[q] EXCEPT !.left = reg[q].left - 1]
  BY <1>1, <1>4, TimerOnly
<1> QED BY <1>2, <1>3, <1>4

-----------------------------------------------------------------------------
(* What follows for the slots, the approvals and the queue.                *)

SlotsKept == Provider = "bank_transfer" /\ NoSharedSlot => NoSharedSlot' \/ StaffForces

\* A slot that was free belongs to nobody else, so giving it shares none.
LEMMA FreeSlotShared ==
    ASSUME RegInv, NEW r \in Regs, NEW now, Provider = "bank_transfer", NoSharedSlot,
           reg' = [reg EXCEPT ![r] = now] \/ LeavesQueue(r, now),
           TakesFreeSlots(r, now)
    PROVE  NoSharedSlot'
<1>1. reg'[r] = now /\ \A q \in Regs \ {r} : Places(reg'[q]) = Places(reg[q])
  BY OthersKeep
<1>2. ASSUME NEW q \in Regs \ {r}
      PROVE  Places(now) \cap Places(reg[q]) = {}
  <2>1. Places(reg[q]) \subseteq UsedSlots(r)
    BY <1>2, UsedSlotsArePlaces
  <2>2. Places(reg[r]) \cap Places(reg[q]) = {}
    BY <1>2 DEF NoSharedSlot
  <2>3. \A x \in Places(now) : x \in Places(reg[r]) \/ x \notin UsedSlots(r)
    BY DEF TakesFreeSlots
  <2> QED BY <2>1, <2>2, <2>3
<1>3. ASSUME NEW q \in Regs, NEW s \in Regs, q # s
      PROVE  Places(reg'[q]) \cap Places(reg'[s]) = {}
  <2>1. CASE q = r
    BY <1>1, <1>2, <1>3, <2>1
  <2>2. CASE s = r
    BY <1>1, <1>2, <1>3, <2>2
  <2>3. CASE q # r /\ s # r
    BY <1>1, <1>3, <2>3 DEF NoSharedSlot
  <2> QED BY <2>1, <2>2, <2>3
<1> QED BY <1>3 DEF NoSharedSlot

\* A slot that is held or reserved in a bank-transfer tournament is never given
\* to a second entrant, except by the two staff decisions that force it.
THEOREM SlotsStayApartHolds == Spec => SlotsStayApart
<1>1. IInv /\ [Next]_vars => [SlotsKept]_vars
  <2> SUFFICES ASSUME IInv, Next, Provider = "bank_transfer", NoSharedSlot, ~StaffForces
               PROVE  NoSharedSlot'
    BY DEF SlotsKept
  <2>0. RegInv
    BY DEF IInv
  <2>1. CASE Tick
    BY <2>0, <2>1, TickKeeps DEF NoSharedSlot
  <2>2. ASSUME NEW r \in Regs, HandlesOrderly(r)
        PROVE  NoSharedSlot'
    <3>1. CASE UNCHANGED reg
      BY <3>1 DEF NoSharedSlot
    <3>2. CASE reg' # reg
      BY <2>0, <2>2, <3>2, FreeSlotShared DEF HandlesOrderly
    <3> QED BY <3>1, <3>2
  <2>3. CASE UNCHANGED reg
    BY <2>3 DEF NoSharedSlot
  <2> QED BY <2>1, <2>2, <2>3, StepsAreOrderly
<1> QED BY <1>1, Invariant, PTL DEF Spec, SlotsStayApart, SlotsKept

Approves ==
    \A r \in Regs : AutoApprove /\ Complete(reg'[r]) =>
        Complete(reg[r]) \/ StaffSetsStatus(r) \/ StaffPromotes(r)

\* Where registrations approve themselves, whichever step completes one also
\* approves it, except a status that staff set.
THEOREM CompleteIsApprovedHolds == Spec => CompleteIsApproved
<1>1. IInv /\ [Next]_vars => [Approves]_vars
  <2> SUFFICES ASSUME IInv, Next, NEW q \in Regs, AutoApprove, Complete(reg'[q])
               PROVE  Complete(reg[q]) \/ StaffSetsStatus(q) \/ StaffPromotes(q)
    BY DEF Approves
  <2>0. RegInv
    BY DEF IInv
  <2>1. CASE Tick
    BY <2>0, <2>1, TickKeeps
  <2>2. ASSUME NEW r \in Regs, HandlesOrderly(r)
        PROVE  Complete(reg[q]) \/ StaffSetsStatus(q) \/ StaffPromotes(q)
    <3>1. CASE UNCHANGED reg
      BY <3>1
    <3>2. CASE reg' # reg
      <4>1. PICK now : /\ reg' = [reg EXCEPT ![r] = now] \/ LeavesQueue(r, now)
                       /\ LeftForNobody(r, now) \/ StaffSetsStatus(r) \/ StaffPromotes(r)
        BY <2>2, <3>2 DEF HandlesOrderly
      <4>2. reg'[r] = now /\ \A s \in Regs \ {r} : Complete(reg'[s]) <=> Complete(reg[s])
        BY <2>0, <4>1, OthersKeep
      <4> QED BY <4>1, <4>2 DEF LeftForNobody
    <3> QED BY <3>1, <3>2
  <2>3. CASE UNCHANGED reg
    BY <2>3
  <2> QED BY <2>1, <2>2, <2>3, StepsAreOrderly
<1> QED BY <1>1, Invariant, PTL DEF Spec, CompleteIsApproved, Approves

Ahead(q, s) == reg[s].status = "waitlisted" => reg[q].wait < reg[s].wait

KeepsOrder ==
    \A q \in Waiting, s \in Regs :
        /\ reg'[q].status = "waitlisted" /\ reg'[s].status = "waitlisted"
        /\ q # s
        /\ reg[s].status = "waitlisted" => reg[q].wait < reg[s].wait
        => reg'[q].wait < reg'[s].wait

\* Compaction moves up those behind the gap and nobody past the gap itself: two
\* rows could only meet on the freed position, which the unique index refuses.
LEMMA CompactionKeepsOrder ==
    ASSUME RegInv, NEW r \in Regs, NEW now, LeavesQueue(r, now),
           NEW q \in Waiting, NEW s \in Regs, q # s, Ahead(q, s),
           reg'[q].status = "waitlisted", reg'[s].status = "waitlisted"
    PROVE  reg'[q].wait < reg'[s].wait
<1>1. reg'[r] = now /\ \A t \in Regs \ {r} : reg'[t].status = reg[t].status
  BY OthersKeep
<1>2. q # r /\ s # r
  BY <1>1 DEF LeavesQueue
<1>3. q \in Regs /\ reg[q].status = "waitlisted" /\ reg[s].status = "waitlisted"
  BY <1>1, <1>2 DEF Waiting
<1>4. /\ reg[q] \in Row /\ reg[s] \in Row /\ reg[r] \in Row
      /\ reg[q].wait > 0 /\ reg[s].wait > 0 /\ reg[r].wait > 0
      /\ reg[q].wait \in Nat /\ reg[s].wait \in Nat /\ reg[r].wait \in Nat
  BY <1>3 DEF RegInv, RowInv, Row, LeavesQueue
<1>5. /\ reg'[q].wait = IF reg[q].wait > reg[r].wait THEN reg[q].wait - 1 ELSE reg[q].wait
      /\ reg'[s].wait = IF reg[s].wait > reg[r].wait THEN reg[s].wait - 1 ELSE reg[s].wait
  BY <1>2, <1>3, <1>4 DEF LeavesQueue, Compacted, RegInv, Row
<1>6. reg[q].wait < reg[s].wait
  BY <1>3 DEF Ahead
<1>7. reg'[q].wait # 0 /\ reg'[q].wait <= reg'[s].wait
  BY <1>4, <1>5, <1>6
<1>8. reg'[q].wait # reg'[s].wait
  BY <1>3, <1>7 DEF LeavesQueue, WaitlistIndex
<1> QED BY <1>4, <1>5, <1>7, <1>8

\* A row written alone keeps its position or joins behind everybody.
LEMMA WritingKeepsOrder ==
    ASSUME RegInv, NEW r \in Regs, NEW now, reg' = [reg EXCEPT ![r] = now], StaysInLine(r, now),
           NEW q \in Waiting, NEW s \in Regs, q # s, Ahead(q, s),
           reg'[q].status = "waitlisted", reg'[s].status = "waitlisted"
    PROVE  reg'[q].wait < reg'[s].wait
<1>1. q \in Regs /\ reg[q].status = "waitlisted"
  BY DEF Waiting
<1>2. reg'[r] = now /\ \A t \in Regs \ {r} : reg'[t] = reg[t]
  BY DEF RegInv
<1>3. reg'[q].wait = reg[q].wait
  BY <1>1, <1>2 DEF StaysInLine
<1>4. CASE reg[s].status = "waitlisted"
  BY <1>2, <1>3, <1>4 DEF StaysInLine, Ahead
<1>5. CASE reg[s].status # "waitlisted"
  BY <1>2, <1>3, <1>5 DEF StaysInLine, IsNextPosition
<1> QED BY <1>4, <1>5

\* Nobody who waits is overtaken, and a newcomer joins behind everybody.
THEOREM QueueOrderKeptHolds == Spec => QueueOrderKept
<1>1. IInv /\ [Next]_vars => [KeepsOrder]_vars
  <2> SUFFICES ASSUME IInv, Next, NEW q \in Waiting, NEW s \in Regs, q # s, Ahead(q, s),
                      reg'[q].status = "waitlisted", reg'[s].status = "waitlisted"
               PROVE  reg'[q].wait < reg'[s].wait
    BY DEF KeepsOrder, Ahead
  <2>0. RegInv /\ q \in Regs /\ reg[q].status = "waitlisted"
    BY DEF IInv, Waiting
  <2>1. CASE Tick
    BY <2>0, <2>1, TickKeeps DEF Ahead
  <2>2. ASSUME NEW r \in Regs, HandlesOrderly(r)
        PROVE  reg'[q].wait < reg'[s].wait
    <3>1. CASE UNCHANGED reg
      BY <3>1 DEF Ahead
    <3>2. CASE reg' # reg
      <4>1. PICK now : /\ reg' = [reg EXCEPT ![r] = now] \/ LeavesQueue(r, now)
                       /\ StaysInLine(r, now)
        BY <2>2, <3>2 DEF HandlesOrderly
      <4> QED BY <2>0, <4>1, CompactionKeepsOrder, WritingKeepsOrder
    <3> QED BY <3>1, <3>2
  <2>3. CASE UNCHANGED reg
    BY <2>0, <2>3 DEF Ahead
  <2> QED BY <2>1, <2>2, <2>3, StepsAreOrderly
<1> QED BY <1>1, Invariant, PTL DEF Spec, QueueOrderKept, KeepsOrder

-----------------------------------------------------------------------------
(* The refinement of TournamentPlaces: whatever is neither time nor one of *)
(* the forcing decisions writes one row, so one entrant comes in, moves or *)
(* gives up, and the capacity and the free slots are those of above.       *)

LEMMA PlacesAreNumbers ==
    ASSUME NEW row \in Row
    PROVE  Places(row) \subseteq Nat
BY DEF Places, Row

LEMMA OccupantsByRow ==
    ASSUME NEW r \in Regs
    PROVE  /\ r \in Occupants <=> Occupies(reg[r])
           /\ r \in Occupants' <=> Occupies(reg'[r])
BY DEF Occupants, Occupies

LEMMA NoPlaceNoSlots ==
    ASSUME NEW row, ~Occupies(row)
    PROVE  Places(row) = {}
BY DEF Occupies, Places

\* The numbers a row is given are its own or those of nobody else.
LEMMA FreeSlotsTaken ==
    ASSUME RegInv, NEW r \in Regs, NEW now, now \in Row, reg'[r] = now, reg' \in [Regs -> Row],
           \A q \in Regs \ {r} : Places(reg'[q]) = Places(reg[q]),
           TakesFreeSlots(r, now)
    PROVE  Tournament!ChangesSlots(r)
<1>1. [q \in Regs |-> Places(reg'[q])] \in [Regs -> SUBSET Nat]
  BY PlacesAreNumbers
<1>2. Tournament!Taken(r) = UsedSlots(r)
  BY UsedSlotsArePlaces DEF Tournament!Taken
<1>3. Provider = "bank_transfer" => Places(now) \cap UsedSlots(r) \subseteq Places(reg[r])
  BY DEF TakesFreeSlots
<1> QED BY <1>1, <1>2, <1>3 DEF Tournament!ChangesSlots

\* A row that comes in found room: with it, the tournament is not beyond its
\* capacity.
LEMMA CameInWithRoom ==
    ASSUME NEW r \in Regs, r \notin Occupants, Occupants' = Occupants \cup {r},
           WithinCapacity, ~StaffForces
    PROVE  Unlimited \/ Cardinality(Occupants) < MaxTeams
<1>1. IsFiniteSet(Occupants)
  BY FS_Subset, EntryAssumption DEF Occupants
<1>2. Cardinality(Occupants \cup {r}) = Cardinality(Occupants) + 1 /\ Cardinality(Occupants) \in Nat
  BY <1>1, FS_AddElement, FS_CardinalityType
<1>3. Unlimited \/ Cardinality(Occupants') <= MaxTeams
  BY DEF WithinCapacity
<1> QED BY <1>2, <1>3, EntryAssumption

\* The instance counts sets as this module does.
LEMMA SameCount == \A S : Tournament!Cardinality(S) = Cardinality(S)
BY DEF Tournament!Cardinality, Cardinality

\* Places only given up.
LEMMA OnlyGivesUp ==
    ASSUME reg' \in [Regs -> Row],
           \A q \in Regs : /\ Places(reg'[q]) \subseteq Places(reg[q])
                           /\ Occupies(reg'[q]) => Occupies(reg[q])
    PROVE  Tournament!Next
<1>1. Occupants' \subseteq Occupants
  BY OccupantsByRow DEF Occupants
<1>2. [q \in Regs |-> Places(reg'[q])] \in [Regs -> SUBSET Nat]
  BY PlacesAreNumbers
<1>3. Tournament!GiveUp
  BY <1>1, <1>2 DEF Tournament!GiveUp
<1> QED BY <1>3 DEF Tournament!Next

\* One row written, with room and free slots, is a step of the tournament.
LEMMA OneRowPlaces ==
    ASSUME RegInv, reg' \in [Regs -> Row], NEW r \in Regs, NEW now,
           reg' = [reg EXCEPT ![r] = now] \/ LeavesQueue(r, now),
           TakesFreeSlots(r, now), WithinCapacity, ~StaffForces
    PROVE  Tournament!Next
<1>1. /\ reg'[r] = now /\ now \in Row
      /\ \A q \in Regs \ {r} : /\ Places(reg'[q]) = Places(reg[q])
                               /\ Occupies(reg'[q]) <=> Occupies(reg[q])
  BY OthersKeep
<1>2. Tournament!ChangesSlots(r)
  BY <1>1, FreeSlotsTaken
<1>3. \A q \in Regs \ {r} : q \in Occupants' <=> q \in Occupants
  BY <1>1, OccupantsByRow
<1>4. Occupants \subseteq Regs /\ Occupants' \subseteq Regs
  BY DEF Occupants
<1>5. CASE ~Occupies(now)
  BY <1>1, <1>5, NoPlaceNoSlots, OnlyGivesUp
<1>6. CASE Occupies(now) /\ Occupies(reg[r])
  <2>1. r \in Occupants /\ r \in Occupants'
    BY <1>1, <1>6, OccupantsByRow
  <2>2. UNCHANGED Occupants
    BY <1>3, <1>4, <2>1
  <2>3. Tournament!Move(r)
    BY <1>2, <2>1, <2>2 DEF Tournament!Move
  <2> QED BY <2>3 DEF Tournament!Next
<1>7. CASE Occupies(now) /\ ~Occupies(reg[r])
  <2>1. r \notin Occupants /\ r \in Occupants'
    BY <1>1, <1>7, OccupantsByRow
  <2>2. Occupants' = Occupants \cup {r}
    BY <1>3, <1>4, <2>1
  <2>3. Tournament!Enter(r)
    BY <1>2, <2>1, <2>2, CameInWithRoom, SameCount DEF Tournament!Enter
  <2> QED BY <2>3 DEF Tournament!Next
<1> QED BY <1>5, <1>6, <1>7

TournamentStep == StaffForces \/ [Tournament!Next]_(Tournament!vars)

LEMMA StepsOfTournament ==
    ASSUME IInv, IInv', Next
    PROVE  TournamentStep
<1> SUFFICES ASSUME ~StaffForces PROVE [Tournament!Next]_(Tournament!vars)
  BY DEF TournamentStep
<1>0. RegInv /\ reg' \in [Regs -> Row] /\ WithinCapacity
  BY NextCapacity DEF IInv, RegInv
<1>1. CASE Tick
  BY <1>0, <1>1, TickKeeps, OnlyGivesUp
<1>2. CASE UNCHANGED reg
  BY <1>2 DEF Tournament!vars, Occupants
<1>3. ASSUME NEW r \in Regs, HandlesOrderly(r), reg' # reg
      PROVE  Tournament!Next
  BY <1>0, <1>3, OneRowPlaces DEF HandlesOrderly
<1> QED BY <1>1, <1>2, <1>3, StepsAreOrderly

\* Whatever staff do not force is a step of TournamentPlaces: entrants come in
\* one at a time while there is room, and take nobody's place and no slot of
\* another entrant.
THEOREM OnlyStaffOverfillsHolds == Spec => OnlyStaffOverfills
<1>1. IInv /\ IInv' /\ [Next]_vars => [TournamentStep]_vars
  BY StepsOfTournament
<1> QED BY <1>1, Invariant, PTL DEF Spec, OnlyStaffOverfills, TournamentStep

\* As long as staff force nobody in, entry to a tournament implements
\* TournamentPlaces.
THEOREM ImplementsTournamentPlaces ==
    Spec /\ [][~StaffForces]_vars => Tournament!Spec
<1>1. Init => Tournament!Init
  BY DEF Init, Tournament!Init, Occupants, Places, Active, Absent
<1>2. [~StaffForces]_vars /\ [TournamentStep]_vars => [Tournament!Next]_(Tournament!vars)
  <2>1. UNCHANGED vars => UNCHANGED Tournament!vars
    BY DEF vars, Tournament!vars, Occupants
  <2> QED BY <2>1 DEF TournamentStep
<1> QED BY <1>1, <1>2, OnlyStaffOverfillsHolds, PTL
      DEF Spec, Tournament!Spec, OnlyStaffOverfills, TournamentStep

-----------------------------------------------------------------------------
(* As long as staff force nothing, both hold of every state.               *)

Fits == Unlimited \/ Cardinality(Occupants) <= MaxTeams

\* As long as staff force nobody in, the tournament never has more entrants
\* with a place than teams: it starts empty, and a step that finds it full only
\* takes places away.
THEOREM UnforcedCapacity == Spec /\ [][~StaffForces]_vars => []Fits
<1>1. Init => Fits
  <2> SUFFICES ASSUME Init PROVE Cardinality(Occupants) = 0
    BY EntryAssumption DEF Fits
  <2>1. Occupants = {}
    BY DEF Init, Occupants, Active, Absent
  <2> QED BY <2>1, FS_EmptySet
<1>2. Fits /\ [~StaffForces]_vars /\ [WithinCapacity]_vars => Fits'
  <2> SUFFICES ASSUME Fits, [~StaffForces]_vars, [WithinCapacity]_vars, ~Unlimited
               PROVE  Cardinality(Occupants') <= MaxTeams
    BY DEF Fits
  <2>1. CASE UNCHANGED vars
    <3>1. Occupants' = Occupants
      BY <2>1 DEF vars, Occupants
    <3> QED BY <3>1 DEF Fits
  <2>2. CASE ~StaffForces /\ WithinCapacity
    <3>1. CASE Occupants' \subseteq Occupants
      <4>1. IsFiniteSet(Occupants)
        BY FS_Subset, EntryAssumption DEF Occupants
      <4>2. /\ Cardinality(Occupants') <= Cardinality(Occupants)
            /\ Cardinality(Occupants) \in Nat /\ Cardinality(Occupants') \in Nat
        BY <3>1, <4>1, FS_Subset, FS_CardinalityType
      <4> QED BY <4>2, EntryAssumption DEF Fits
    <3> QED BY <2>2, <3>1 DEF WithinCapacity
  <2> QED BY <2>1, <2>2
<1>3. IInv /\ [Next]_vars => [WithinCapacity]_vars
  BY NextCapacity
<1> QED BY <1>1, <1>2, <1>3, Invariant, PTL DEF Spec

SlotsApart == Provider = "bank_transfer" => NoSharedSlot

\* As long as staff force nobody in, no two entrants of a bank-transfer
\* tournament ever have the same slot, reserved, held or paid for.
THEOREM UnforcedSlots == Spec /\ [][~StaffForces]_vars => []SlotsApart
<1>1. Init => SlotsApart
  BY DEF Init, SlotsApart, NoSharedSlot, Places, Active, Absent
<1>2. SlotsApart /\ [~StaffForces]_vars /\ [SlotsKept]_vars => SlotsApart'
  <2>1. UNCHANGED vars => (NoSharedSlot' <=> NoSharedSlot)
    BY DEF vars, NoSharedSlot
  <2> QED BY <2>1 DEF SlotsApart, SlotsKept
<1> QED BY <1>1, <1>2, SlotsStayApartHolds, PTL DEF Spec, SlotsStayApart, SlotsKept

=============================================================================
