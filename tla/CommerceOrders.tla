--------------------------- MODULE CommerceOrders ---------------------------
(***************************************************************************)
(* Ticket orders of one event and shop orders of one product variant, with *)
(* the payment code they share:                                            *)
(*   modules/tickets/ticket.service.js, modules/shop/shop.service.js,      *)
(*   modules/payments/*.service.js.                                        *)
(* A SERIALIZABLE transaction is one step: when a row it used changes, the *)
(* database aborts it and runSerializable tries again.  A READ COMMITTED   *)
(* transaction that reads a row, decides and then writes without repeating *)
(* the condition is two steps, with the staff desk holding the open one.   *)
(* All tickets of an order move together but for staff actions: the record *)
(* follows one of them and "qty" says how many there are.                  *)
(***************************************************************************)
EXTENDS Integers, FiniteSets

CONSTANTS
    Orders,         \* the orders that can be placed
    NoOrder,        \* no order
    Capacities,     \* the capacities staff give the event
    MaxQuantity,    \* the most tickets, or units, of one order
    Stock,          \* units in stock at first
    HoldTime,       \* ticks an unpaid order holds its places or its stock
    ReviewTime,     \* ticks a bank-transfer proof holds them for its review
    Methods,        \* the payment methods the event offers
    Codes           \* what the payment provider may report

ASSUME CommerceAssumption ==
    /\ IsFiniteSet(Orders) /\ NoOrder \notin Orders
    /\ Capacities \subseteq Nat /\ Capacities # {}
    /\ MaxQuantity \in Nat \ {0} /\ Stock \in Nat
    /\ HoldTime \in Nat \ {0} /\ ReviewTime \in Nat \ {0}
    /\ Methods \subseteq {"payhere", "bank_transfer", "cash"}
    /\ Codes \subseteq {"paid", "pending", "cancelled", "failed", "charged_back"}

VARIABLES
    ev,        \* the event: status and capacity
    stock,     \* productVariant.stock
    ord,       \* the orders, each with its payment and its ticket
    desk       \* a staff request that has read its row and not yet written

vars == <<ev, stock, ord, desk>>

Never == -1

Failed  == {"cancelled", "failed"}
Reversed == {"charged_back", "refunded"}
TERMINAL_FAILURE_STATUSES == Failed \union Reversed \union {"expired", "review_required"}

Blank == [kind |-> "none", qty |-> 0, status |-> "none", released |-> FALSE,
          left |-> Never, method |-> "none", pay |-> "none",
          ticket |-> "none", checkedIn |-> FALSE,
          unreturned |-> FALSE]

Idle == [task |-> "idle", o |-> NoOrder, form |-> 0]

TypeOK ==
    /\ ev \in [status: {"on_sale", "cancelled"}, capacity: Capacities]
    /\ stock \in Int
    /\ ord \in [Orders ->
         [kind: {"none", "ticket", "merch"}, qty: 0..MaxQuantity,
          status: {"none", "pending_payment", "paid", "processing", "fulfilled",
                   "cancelled", "expired", "refunded"},
          released: BOOLEAN, left: {Never} \union Nat,
          method: {"none", "payhere", "bank_transfer", "cash"},
          pay: {"none", "created", "pending", "paid"}
                 \union TERMINAL_FAILURE_STATUSES,
          ticket: {"none", "pending", "valid", "checked_in", "cancelled", "refunded"},
          checkedIn: BOOLEAN, unreturned: BOOLEAN]]
    /\ desk \in [task: {"idle", "cancelTicket", "restoreTicket",
                        "processing", "fulfilled", "cancelOrder", "product"},
                 o: Orders \union {NoOrder}, form: Int]

Init ==
    /\ \E c \in Capacities : ev = [status |-> "on_sale", capacity |-> c]
    /\ stock = Stock
    /\ ord = [o \in Orders |-> Blank]
    /\ desk = Idle

-----------------------------------------------------------------------------
(* Places.                                                                 *)

\* The places, or units, that the orders of S are for, counted one by one: the
\* sum of their quantities.
Units(S) == Cardinality({u \in S \X (1..MaxQuantity) : u[2] <= ord[u[1]].qty})

\* activeOrderWhere: paid, or holding its places until its window closes.
ActiveOrder(o) ==
    /\ ord[o].kind = "ticket"
    /\ \/ ord[o].status = "paid"
       \/ ord[o].status = "pending_payment" /\ ~ord[o].released /\ ord[o].left > 0

Reserved(S) == Units({o \in S : ActiveOrder(o)})

\* Mutant: the check forgets orders that are not paid yet.
PaidOnlySpare(o, q) ==
    Units({p \in Orders \ {o} : ord[p].status = "paid" /\ ord[p].kind = "ticket"}) + q
        <= ev.capacity

Spare(o, q) == Reserved(Orders \ {o}) + q <= ev.capacity

\* createTicketOrder.
CreateTicketOrder(o) == \E q \in 1..MaxQuantity, m \in Methods :
    /\ ord[o] = Blank
    /\ ev.status = "on_sale"
    /\ Spare(o, q)
    /\ ord' = [ord EXCEPT ![o] = [Blank EXCEPT
                  !.kind = "ticket", !.qty = q, !.status = "pending_payment",
                  !.left = HoldTime, !.method = m, !.ticket = "pending",
                  !.pay = IF m = "payhere" THEN "created" ELSE "pending"]]
    /\ UNCHANGED <<ev, stock, desk>>

\* createMerchandiseOrder: the stock is taken where enough of it is left.
CreateMerchandiseOrder(o) == \E q \in 1..MaxQuantity :
    /\ ord[o] = Blank
    /\ stock >= q
    /\ stock' = stock - q
    /\ ord' = [ord EXCEPT ![o] = [Blank EXCEPT
                  !.kind = "merch", !.qty = q, !.status = "pending_payment",
                  !.left = HoldTime, !.method = "payhere", !.pay = "created"]]
    /\ UNCHANGED <<ev, desk>>

\* saveAdminEvent: the capacity never goes below what is reserved.
SaveAdminEvent == \E c \in Capacities, s \in {"on_sale", "cancelled"} :
    /\ c >= Reserved(Orders)
    /\ ev' = [status |-> s, capacity |-> c]
    /\ ev' # ev
    /\ UNCHANGED <<stock, ord, desk>>

-----------------------------------------------------------------------------
(* The end of a hold.                                                      *)

\* Mutant: the claim does not ask for inventoryReleasedAt null.
ClaimsAgain(r) == TRUE

\* releaseOrderStock, on a row r: claimed once, whatever the caller knew.
Claims(r) == ~r.released

ReleasedRow(r, status, restore) ==
    IF Claims(r)
    THEN [r EXCEPT !.released = TRUE, !.status = status, !.unreturned = ~restore]
    ELSE r

StockAfter(r, restore) == IF Claims(r) /\ restore THEN stock + r.qty ELSE stock

\* Mutant: the sweep trusts the status its query saw instead of asking again.
LapsedWhenRead(r) == ~r.released /\ r.left = 0

\* Mutant: only orders whose checkout was opened are looked for.
LapsedCheckout(r) ==
    r.status = "pending_payment" /\ ~r.released /\ r.left = 0 /\ r.pay = "created"

\* The condition of every expiry's first update.
Lapsed(r) == r.status = "pending_payment" /\ ~r.released /\ r.left = 0

Unsettled == {"created", "pending"}

\* expireTicketOrderReservation.
ExpireTicketOrder(o) ==
    /\ ord[o].kind = "ticket" /\ Lapsed(ord[o])
    /\ ord' = [ord EXCEPT
         ![o].status = "expired", ![o].released = TRUE,
         ![o].ticket = IF @ = "pending" THEN "cancelled" ELSE @,
         ![o].pay = IF @ \in Unsettled \union {"review_required"} THEN "expired" ELSE @]
    /\ UNCHANGED stock

\* A shop order cancelled before its money came.
UnpaidRow(r) ==
    LET s == ReleasedRow(r, "cancelled", TRUE) IN
    [s EXCEPT !.pay = IF s.pay \in Unsettled THEN "expired" ELSE s.pay]

\* expireMerchandiseOrderReservation.
ExpireMerchandiseOrder(o) ==
    /\ ord[o].kind = "merch" /\ Lapsed(ord[o])
    /\ stock' = StockAfter(ord[o], TRUE)
    /\ ord' = [ord EXCEPT ![o] = UnpaidRow(ord[o])]

\* Every expiry is this one transaction, which asks again for what its caller
\* saw: getTicketOrderByToken, getOrderByToken and getPaymentStatus when a buyer
\* looks, expireStaleCommerceReservations for each order its query listed.
ExpireOrder(o) ==
    /\ ExpireTicketOrder(o) \/ ExpireMerchandiseOrder(o)
    /\ UNCHANGED <<ev, desk>>

\* Mutant: a window goes on being counted down after it closed.
TickOn ==
    /\ \E o \in Orders : ord[o].left >= 0
    /\ ord' = [o \in Orders |-> [ord[o] EXCEPT !.left = @ - 1]]
    /\ UNCHANGED <<ev, stock, desk>>

\* Time passes for every window that is open.
Tick ==
    /\ \E o \in Orders : ord[o].left > 0
    /\ ord' = [o \in Orders |-> [ord[o] EXCEPT !.left = IF @ > 0 THEN @ - 1 ELSE @]]
    /\ UNCHANGED <<ev, stock, desk>>

-----------------------------------------------------------------------------
(* Money.                                                                  *)

\* What the provider's "paid" needs: the hold is still there (resolvePaidStatus).
Deliverable(r) ==
    /\ ~r.released
    /\ ~(r.status = "pending_payment" /\ r.left = 0)
    /\ r.kind = "ticket" => ev.status # "cancelled"

\* processPayHereNotification: the status a report leaves the payment in.
ReportedStatus(r, code) ==
    IF code = "paid"
    THEN IF r.pay \in TERMINAL_FAILURE_STATUSES \/ ~Deliverable(r)
         THEN "review_required" ELSE "paid"
    ELSE IF \/ r.pay = "paid" /\ code # "charged_back"
            \/ r.pay \in TERMINAL_FAILURE_STATUSES
         THEN r.pay ELSE code

\* applyTargetStatus, for a ticket order and for a shop order.
TicketApplied(r, st) ==
    LET back == IF st \in Reversed THEN "refunded" ELSE "cancelled" IN
    IF st = "paid"
    THEN [r EXCEPT !.status = "paid", !.released = FALSE,
                   !.ticket = IF @ = "pending" THEN "valid" ELSE @]
    ELSE IF st \in Failed \union Reversed
    THEN [r EXCEPT !.status = IF @ = "expired" THEN @ ELSE back,
                   !.released = @ \/ r.status # "expired",
                   !.ticket = IF @ \in {"pending", "valid"} THEN back ELSE @]
    ELSE r

MerchApplied(r, st) ==
    IF st = "paid" THEN [r EXCEPT !.status = "paid"]
    ELSE IF st \in Failed \union Reversed
    THEN ReleasedRow(r, IF st \in Reversed THEN "refunded" ELSE "cancelled",
                     r.status # "fulfilled")
    ELSE r

Settle(o, st) ==
    LET r == [ord[o] EXCEPT !.pay = st] IN
    /\ ord' = [ord EXCEPT ![o] = IF r.kind = "ticket" THEN TicketApplied(r, st)
                                                      ELSE MerchApplied(r, st)]
    /\ stock' = IF r.kind = "merch" /\ st \in Failed \union Reversed
                THEN StockAfter(r, r.status # "fulfilled") ELSE stock
    /\ UNCHANGED <<ev, desk>>

\* A report already audited, and one that changes nothing, are stutters.
ProcessPayHereNotification(o, code) ==
    /\ ord[o].method = "payhere"
    /\ ReportedStatus(ord[o], code) # ord[o].pay
    /\ Settle(o, ReportedStatus(ord[o], code))

\* Mutant: the release of the hold is not looked at.
AcceptReleasedPayment(o) ==
    /\ ord[o].method = "payhere" /\ ord[o].pay = "review_required"
    /\ ord[o].kind = "ticket" =>
         ord[o].left > 0 /\ ev.status # "cancelled" /\ Spare(o, ord[o].qty)
    /\ Settle(o, "paid")

\* reconcilePayHerePayment, accept.
AcceptPayHerePayment(o) ==
    /\ ord[o].method = "payhere" /\ ord[o].pay = "review_required"
    /\ ~ord[o].released
    /\ ord[o].kind = "ticket" =>
         ord[o].left > 0 /\ ev.status # "cancelled" /\ Spare(o, ord[o].qty)
    /\ Settle(o, "paid")

\* reconcilePayHerePayment, mark_refunded.
RefundPayHerePayment(o) ==
    /\ ord[o].method = "payhere" /\ ord[o].pay = "review_required"
    /\ Settle(o, "refunded")

\* reconcileCashTicketPayment.
ReconcileCash(o) ==
    /\ ord[o].method = "cash" /\ ord[o].pay \in Unsettled
    /\ \/ /\ ~ord[o].released /\ ord[o].left > 0 /\ ev.status # "cancelled"
          /\ Settle(o, "paid")
       \/ Settle(o, "cancelled")

\* submitBankTransferProof: the hold becomes the review window.
SubmitTicketProof(o) ==
    /\ ord[o].method = "bank_transfer"
    /\ ord[o].pay \in Unsettled \union {"review_required"}
    /\ ord[o].left > 0
    /\ ord' = [ord EXCEPT ![o].pay = "review_required", ![o].left = ReviewTime]
    /\ UNCHANGED <<ev, stock, desk>>

\* reviewBankTransfer: only a proof puts a bank transfer under review.
ReviewTicketProof(o) ==
    /\ ord[o].method = "bank_transfer" /\ ord[o].pay = "review_required"
    /\ \/ /\ ord[o].left > 0
          /\ ord' = [ord EXCEPT ![o].pay = "paid", ![o].status = "paid",
                        ![o].released = FALSE,
                        ![o].ticket = IF @ = "pending" THEN "valid" ELSE @]
       \/ ord' = [ord EXCEPT ![o].pay = "failed", ![o].status = "cancelled",
                     ![o].released = TRUE,
                     ![o].ticket = IF @ = "pending" THEN "cancelled" ELSE @]
    /\ UNCHANGED <<ev, stock, desk>>

-----------------------------------------------------------------------------
(* The gate.                                                               *)

\* Mutant: the update does not ask for checkedInAt null.
MayAdmitAgain(r) == r.ticket = "valid"

\* scanTicket's conditional update.
MayAdmit(r) == r.ticket = "valid" /\ ~r.checkedIn

\* scanTicket, accepted, for the code issued last.
ScanTicket(o) ==
    /\ ord[o].kind = "ticket"
    /\ ev.status # "cancelled"
    /\ ord[o].status = "paid"
    /\ MayAdmit(ord[o])
    /\ ord' = [ord EXCEPT ![o].ticket = "checked_in", ![o].checkedIn = TRUE]
    /\ UNCHANGED <<ev, stock, desk>>

-----------------------------------------------------------------------------
(* The staff desk.                                                         *)

MayOpen(task, o) ==
    LET r == ord[o] IN
    CASE task = "cancelTicket"  -> r.kind = "ticket" /\ r.ticket # "checked_in"
      [] task = "restoreTicket" -> /\ r.kind = "ticket" /\ r.ticket # "checked_in"
                                   /\ r.status = "paid"
      [] task = "processing"    -> r.kind = "merch" /\ r.pay = "paid"
      [] task = "fulfilled"     -> /\ r.kind = "merch" /\ r.pay = "paid"
                                   /\ r.status \in {"paid", "processing"}
      [] task = "cancelOrder"   -> r.kind = "merch" /\ r.status = "pending_payment"

DeskTasks == {"cancelTicket", "restoreTicket", "processing", "fulfilled", "cancelOrder"}

\* The request reads its row and finds that it may go on.
DeskReads(o) == \E task \in DeskTasks :
    /\ desk = Idle
    /\ MayOpen(task, o)
    /\ desk' = [Idle EXCEPT !.task = task, !.o = o]
    /\ UNCHANGED <<ev, stock, ord>>

Done(task, o) == desk.task = task /\ desk.o = o /\ desk' = Idle /\ UNCHANGED ev

\* updateTicketStatus writes without a condition.
UpdateTicketStatus(o) ==
    /\ \/ Done("cancelTicket", o) /\ ord' = [ord EXCEPT ![o].ticket = "cancelled"]
       \/ Done("restoreTicket", o) /\ ord' = [ord EXCEPT ![o].ticket = "valid"]
    /\ UNCHANGED stock

\* updateAdminOrderStatus, processing and fulfilled: no condition either.
FulfilOrder(o) ==
    /\ Done("processing", o) \/ Done("fulfilled", o)
    /\ ord' = [ord EXCEPT ![o].status = desk.task]
    /\ UNCHANGED stock

\* updateAdminOrderStatus, cancelled: only the release is claimed.
CancelOrder(o) ==
    /\ Done("cancelOrder", o)
    /\ stock' = StockAfter(ord[o], TRUE)
    /\ ord' = [ord EXCEPT ![o] = UnpaidRow(ord[o])]

\* The product form is loaded with the stock of that moment, and saveAdminProduct
\* writes what the form says.
OpenProductForm ==
    /\ desk = Idle
    /\ desk' = [Idle EXCEPT !.task = "product", !.form = stock]
    /\ UNCHANGED <<ev, stock, ord>>

SaveAdminProduct ==
    /\ desk.task = "product"
    /\ stock' = desk.form
    /\ desk' = Idle
    /\ UNCHANGED <<ev, ord>>

-----------------------------------------------------------------------------
Settlement(o) ==
    \/ \E code \in Codes : ProcessPayHereNotification(o, code)
    \/ AcceptPayHerePayment(o)
    \/ RefundPayHerePayment(o)
    \/ ReconcileCash(o)
    \/ SubmitTicketProof(o)
    \/ ReviewTicketProof(o)

Next ==
    \/ SaveAdminEvent \/ Tick
    \/ OpenProductForm \/ SaveAdminProduct
    \/ \E o \in Orders :
         \/ CreateTicketOrder(o) \/ CreateMerchandiseOrder(o)
         \/ ExpireOrder(o) \/ Settlement(o)
         \/ ScanTicket(o)
         \/ DeskReads(o) \/ UpdateTicketStatus(o)
         \/ FulfilOrder(o) \/ CancelOrder(o)

Spec == Init /\ [][Next]_vars

\* Time passes and the maintenance sweep keeps running.
FairSpec ==
    /\ Spec
    /\ WF_vars(Tick)
    /\ \A o \in Orders : WF_vars(ExpireOrder(o))

-----------------------------------------------------------------------------
(* What holds.                                                             *)

\* The paid and the waiting orders never ask for more places than the event
\* has, whatever order creation, expiry, late money, reviews, and changes of
\* the capacity come in.
NeverOversold == Reserved(Orders) <= ev.capacity

\* A ticket lets one person in once, even when staff restore or cancel it
\* around a scan.
AdmittedOnce == [][\A o \in Orders :
    ord'[o].ticket = "checked_in" /\ ord[o].ticket # "checked_in"
        => ~ord[o].checkedIn]_vars

\* Money the site counts as received for a ticket order stands for a paid order,
\* and a paid order for money received or under review: no expiry, chargeback
\* or late notification leaves one without the other.
TicketMoneyMatchesOrder == \A o \in Orders : ord[o].kind = "ticket" =>
    /\ ord[o].pay = "paid" => ord[o].status = "paid" /\ ~ord[o].released
    /\ ord[o].status = "paid" => ord[o].pay \in {"paid", "review_required"}

\* Stock leaves and comes back only with the orders that hold it, once each: but
\* for staff who edit the product, every step keeps the sum of the stock and of
\* the units that orders still hold or have kept.
Held == {o \in Orders : ord[o].kind = "merch" /\ (~ord[o].released \/ ord[o].unreturned)}
StockMovesWithHolds ==
    [][SaveAdminProduct \/ stock' + Units(Held)' = stock + Units(Held)]_vars

\* What was given back stays given back: a late payment, a review or a
\* reconciliation never revives an order whose places or stock went to others.
ReleasedStaysReleased == [][\A o \in Orders : ord[o].released => ord'[o].released]_vars

\* An order nobody pays gives its places or its stock back.  A bank-transfer
\* proof may be sent again and again, each one renewing the hold.
AbandonedOrdersEnd == \A o \in Orders :
    (ord[o].status = "pending_payment" /\ ord[o].method # "bank_transfer")
        ~> (ord[o].status # "pending_payment")

=============================================================================
