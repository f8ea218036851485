------------------------ MODULE CommerceOrdersProofs ------------------------
(***************************************************************************)
(* Theorems about CommerceOrders, for any number of orders, any capacities *)
(* and stock, any windows, payment methods and reports of the provider.    *)
(*                                                                         *)
(* IInv is about the rows one by one.  PlacesInv, which needs it, is about *)
(* their sum: a step on one order changes one term of a total (TotalApart),*)
(* and Booked says by how much.                                            *)
(***************************************************************************)
EXTENDS CommerceOrders, FiniteSetTheorems, TLAPS

PayType == {"none", "created", "pending", "paid"} \union TERMINAL_FAILURE_STATUSES

StatusType == {"none", "pending_payment", "paid", "processing", "fulfilled",
               "cancelled", "expired", "refunded"}

TicketType == {"none", "pending", "valid", "checked_in", "cancelled", "refunded"}

OrderType ==
    [kind: {"none", "ticket", "merch"}, qty: 0..MaxQuantity, status: StatusType,
     released: BOOLEAN, left: {Never} \union Nat,
     method: {"none", "payhere", "bank_transfer", "cash"},
     pay: PayType, ticket: TicketType, checkedIn: BOOLEAN, unreturned: BOOLEAN]

DeskType == [task: {"idle", "cancelTicket", "restoreTicket",
                    "processing", "fulfilled", "cancelOrder", "product"},
             o: Orders \union {NoOrder}, form: Int]

\* The part of TicketMoneyMatchesOrder that is about one order.
MoneyMatches(r) == r.kind = "ticket" =>
    /\ r.pay = "paid" => r.status = "paid" /\ ~r.released
    /\ r.status = "paid" => r.pay \in {"paid", "review_required"}

\* What holds of every order.  A bank transfer that lost its places is over: a
\* review can no longer accept it.
Row(r) ==
    /\ r \in OrderType
    /\ MoneyMatches(r)
    /\ r.method = "bank_transfer" /\ r.released =>
         r.pay \notin Unsettled \union {"review_required"}
    /\ r.kind = "merch" => r.method = "payhere"

\* What no step does to an order.
Follows(r, s) ==
    /\ r.kind # "none" => s.kind = r.kind
    /\ r.released => s.released
    /\ s.ticket = "checked_in" /\ r.ticket # "checked_in" => ~r.checkedIn

\* The desk works on an order of the kind its task is for.
DeskNamed ==
    /\ desk.task \in {"cancelTicket", "restoreTicket"} =>
         desk.o \in Orders /\ ord[desk.o].kind = "ticket"
    /\ desk.task \in {"processing", "fulfilled", "cancelOrder"} =>
         desk.o \in Orders /\ ord[desk.o].kind = "merch"

IInv ==
    /\ TypeOK
    /\ \A o \in Orders : Row(ord[o])
    /\ DeskNamed

StepKept == \A o \in Orders : Follows(ord[o], ord'[o])

LEMMA Types ==
    ASSUME IInv
    PROVE  /\ ord \in [Orders -> OrderType] /\ desk \in DeskType /\ stock \in Int
           /\ ev \in [status: {"on_sale", "cancelled"}, capacity: Capacities]
  BY DEF IInv, TypeOK, OrderType, DeskType, PayType, StatusType, TicketType

\* A step on one order, after which the desk is where it was or idle.
LEMMA OneOrder ==
    ASSUME IInv, NEW o \in Orders, NEW row,
           ord' = [ord EXCEPT ![o] = row], Row(row), Follows(ord[o], row),
           ev' = ev, stock' \in Int, desk' = desk \/ desk' = Idle
    PROVE  IInv' /\ StepKept
  <1>1. /\ ord \in [Orders -> OrderType] /\ desk \in DeskType
        /\ ev \in [status: {"on_sale", "cancelled"}, capacity: Capacities]
    BY Types
  <1>2. /\ ord' \in [Orders -> OrderType]
        /\ \A p \in Orders : ord'[p] = IF p = o THEN row ELSE ord[p]
    BY <1>1 DEF Row
  <1>3. \A p \in Orders : Row(ord'[p]) /\ Follows(ord[p], ord'[p])
    <2>1. \A p \in Orders : Row(ord[p]) /\ Follows(ord[p], ord[p])
      BY DEF IInv, Follows
    <2> QED BY <1>2, <2>1
  <1>4. desk' \in DeskType
    BY <1>1 DEF Idle, DeskType
  <1>5. DeskNamed'
    <2>1. CASE desk' = Idle
      BY <2>1 DEF DeskNamed, Idle
    <2>2. CASE desk' = desk
      BY <1>3, <2>2 DEF DeskNamed, IInv, Follows
    <2> QED BY <2>1, <2>2
  <1>6. TypeOK'
    BY <1>1, <1>2, <1>4 DEF TypeOK, OrderType, DeskType, PayType, StatusType, TicketType
  <1> QED BY <1>3, <1>5, <1>6 DEF IInv, StepKept

LEMMA BlankTyped ==
    /\ Blank \in OrderType
    /\ ~Blank.released /\ ~Blank.checkedIn
    /\ Blank.kind = "none" /\ Blank.status = "none" /\ Blank.pay = "none"
    /\ Blank.method = "none" /\ Blank.ticket = "none"
  <1>1. Blank \in OrderType
    BY CommerceAssumption
       DEF CommerceAssumption, Blank, OrderType, PayType, StatusType, TicketType, Never
  <1> QED BY <1>1 DEF Blank

LEMMA InitIInv == Init => IInv
  <1> SUFFICES ASSUME Init PROVE IInv
    OBVIOUS
  <1>1. Blank \in OrderType
    BY BlankTyped
  <1>2. \A o \in Orders : Row(ord[o])
    BY BlankTyped DEF Init, Row, MoneyMatches
  <1>3. ord \in [Orders -> OrderType]
    BY <1>1 DEF Init
  <1>4. desk \in DeskType /\ DeskNamed
    BY DEF Init, Idle, DeskType, DeskNamed
  <1>5. /\ ev \in [status: {"on_sale", "cancelled"}, capacity: Capacities]
        /\ stock \in Int
    BY CommerceAssumption DEF Init, CommerceAssumption
  <1> QED BY <1>2, <1>3, <1>4, <1>5 DEF IInv, TypeOK, OrderType, DeskType, PayType, StatusType, TicketType

-----------------------------------------------------------------------------
(* Orders are made, held and let go.                                       *)

LEMMA TicketOrderKeeps ==
    ASSUME IInv, NEW o \in Orders, CreateTicketOrder(o)
    PROVE  IInv' /\ StepKept
  <1>1. PICK q \in 1..MaxQuantity, m \in Methods :
          /\ ord[o] = Blank
          /\ ord' = [ord EXCEPT ![o] = [Blank EXCEPT
                  !.kind = "ticket", !.qty = q, !.status = "pending_payment",
                  !.left = HoldTime, !.method = m, !.ticket = "pending",
                  !.pay = IF m = "payhere" THEN "created" ELSE "pending"]]
          /\ UNCHANGED <<ev, stock, desk>>
    BY DEF CreateTicketOrder
  <1> DEFINE pay == IF m = "payhere" THEN "created" ELSE "pending"
             row == [Blank EXCEPT
                  !.kind = "ticket", !.qty = q, !.status = "pending_payment",
                  !.left = HoldTime, !.method = m, !.ticket = "pending", !.pay = pay]
  <1>2. stock' \in Int /\ ord' = [ord EXCEPT ![o] = row]
    BY <1>1, Types
  <1>3. /\ q \in 0..MaxQuantity /\ HoldTime \in Nat
        /\ m \in {"none", "payhere", "bank_transfer", "cash"}
        /\ pay \in PayType /\ pay # "paid"
        /\ "pending_payment" \in StatusType /\ "pending" \in TicketType
    BY CommerceAssumption DEF CommerceAssumption, PayType, StatusType, TicketType
  <1> HIDE DEF pay
  <1>4. row \in OrderType
    BY <1>3, BlankTyped DEF OrderType
  <1>5. /\ row.kind = "ticket" /\ row.status = "pending_payment" /\ row.pay = pay
        /\ row.ticket = "pending"
    BY <1>3, BlankTyped DEF OrderType
  <1>6. ~row.released
    BY <1>3, BlankTyped DEF OrderType
  <1> HIDE DEF row
  <1>7. Row(row) /\ Follows(ord[o], row)
    BY <1>1, <1>3, <1>4, <1>5, <1>6, BlankTyped DEF Row, Follows, MoneyMatches
  <1> QED BY <1>1, <1>2, <1>7, OneOrder

LEMMA MerchandiseOrderKeeps ==
    ASSUME IInv, NEW o \in Orders, CreateMerchandiseOrder(o)
    PROVE  IInv' /\ StepKept
  <1>1. PICK q \in 1..MaxQuantity :
          /\ ord[o] = Blank /\ stock' = stock - q
          /\ ord' = [ord EXCEPT ![o] = [Blank EXCEPT
                  !.kind = "merch", !.qty = q, !.status = "pending_payment",
                  !.left = HoldTime, !.method = "payhere", !.pay = "created"]]
          /\ UNCHANGED <<ev, desk>>
    BY DEF CreateMerchandiseOrder
  <1> DEFINE row == [Blank EXCEPT
                  !.kind = "merch", !.qty = q, !.status = "pending_payment",
                  !.left = HoldTime, !.method = "payhere", !.pay = "created"]
  <1>2. stock' \in Int /\ ord' = [ord EXCEPT ![o] = row]
    BY <1>1, Types
  <1>3. /\ q \in 0..MaxQuantity /\ HoldTime \in Nat
        /\ "created" \in PayType /\ "pending_payment" \in StatusType
    BY CommerceAssumption DEF CommerceAssumption, PayType, StatusType
  <1>4. row \in OrderType
    BY <1>3, BlankTyped DEF OrderType
  <1>5. row.kind = "merch" /\ row.method = "payhere" /\ row.ticket = "none"
    BY <1>3, BlankTyped DEF OrderType
  <1> HIDE DEF row
  <1>6. Row(row) /\ Follows(ord[o], row)
    BY <1>1, <1>4, <1>5, BlankTyped DEF Row, Follows, MoneyMatches
  <1> QED BY <1>1, <1>2, <1>6, OneOrder

\* The release of a shop order changes its status and two flags.
LEMMA ReleasedRowKeeps ==
    ASSUME NEW r, Row(r), r.kind # "ticket", r.method # "bank_transfer",
           NEW status \in {"cancelled", "refunded"}, NEW restore \in BOOLEAN
    PROVE  /\ Row(ReleasedRow(r, status, restore))
           /\ Follows(r, ReleasedRow(r, status, restore))
           /\ ReleasedRow(r, status, restore).ticket = r.ticket
           /\ ReleasedRow(r, status, restore).kind = r.kind
           /\ ReleasedRow(r, status, restore).method = r.method
  <1>1. r \in OrderType /\ status \in StatusType
    BY DEF Row, StatusType
  <1>2. CASE ~Claims(r)
    <2>1. ReleasedRow(r, status, restore) = r
      BY <1>2 DEF ReleasedRow
    <2> QED BY <2>1 DEF Follows
  <1>3. CASE Claims(r)
    <2> DEFINE s == [r EXCEPT !.released = TRUE, !.status = status, !.unreturned = ~restore]
    <2>1. ReleasedRow(r, status, restore) = s
      BY <1>3 DEF ReleasedRow
    <2>2. s \in OrderType
      BY <1>1 DEF OrderType
    <2>3. s.kind = r.kind /\ s.method = r.method /\ s.ticket = r.ticket
      BY <1>1 DEF OrderType
    <2>4. s.released
      BY <1>1 DEF OrderType
    <2> HIDE DEF s
    <2> QED BY <2>1, <2>2, <2>3, <2>4 DEF Row, Follows, MoneyMatches
  <1> QED BY <1>2, <1>3

LEMMA StockTyped ==
    ASSUME IInv, NEW r \in OrderType, NEW restore
    PROVE  StockAfter(r, restore) \in Int
  <1>1. r.qty \in Int
    BY CommerceAssumption DEF CommerceAssumption, OrderType
  <1> QED BY <1>1, Types DEF StockAfter

\* What a payment's status does to an order that no ticket hangs on.
LEMMA PayWritten ==
    ASSUME NEW r, Row(r), r.kind # "ticket", r.method # "bank_transfer",
           NEW pay \in PayType
    PROVE  /\ Row([r EXCEPT !.pay = pay]) /\ Follows(r, [r EXCEPT !.pay = pay])
           /\ [r EXCEPT !.pay = pay].kind = r.kind
           /\ [r EXCEPT !.pay = pay].method = r.method
           /\ [r EXCEPT !.pay = pay].ticket = r.ticket
  <1> DEFINE s == [r EXCEPT !.pay = pay]
  <1>1. r \in OrderType
    BY DEF Row
  <1>2. s \in OrderType
    BY <1>1 DEF OrderType
  <1>3. s.kind = r.kind /\ s.method = r.method /\ s.ticket = r.ticket
    BY <1>1 DEF OrderType
  <1>4. s.released = r.released
    BY <1>1 DEF OrderType
  <1> HIDE DEF s
  <1>5. Row(s) /\ Follows(r, s)
    BY <1>2, <1>3, <1>4 DEF Row, Follows, MoneyMatches
  <1> QED BY <1>3, <1>5 DEF s

\* An order let go unpaid, by the sweep or by staff.
LEMMA LetGo ==
    ASSUME NEW r, Row(r), r.kind = "merch"
    PROVE  Row(UnpaidRow(r)) /\ Follows(r, UnpaidRow(r))
  <1> DEFINE s == ReleasedRow(r, "cancelled", TRUE)
             pay == IF s.pay \in Unsettled THEN "expired" ELSE s.pay
  <1>1. /\ Row(s) /\ Follows(r, s) /\ s.kind = "merch" /\ s.method = "payhere"
        /\ s.ticket = r.ticket
    BY ReleasedRowKeeps DEF Row
  <1>2. UnpaidRow(r) = [s EXCEPT !.pay = pay]
    BY DEF UnpaidRow
  <1> HIDE DEF s
  <1>3. pay \in PayType
    BY <1>1 DEF Row, OrderType, PayType, TERMINAL_FAILURE_STATUSES
  <1> HIDE DEF pay
  <1>4. s.kind # "ticket" /\ s.method # "bank_transfer"
    BY <1>1
  <1>5. /\ Row([s EXCEPT !.pay = pay]) /\ Follows(s, [s EXCEPT !.pay = pay])
        /\ [s EXCEPT !.pay = pay].kind = s.kind
        /\ [s EXCEPT !.pay = pay].ticket = s.ticket
    BY <1>1, <1>3, <1>4, PayWritten
  <1> QED BY <1>1, <1>2, <1>5 DEF Follows

LEMMA ExpireKeeps ==
    ASSUME IInv, NEW o \in Orders, ExpireOrder(o)
    PROVE  IInv' /\ StepKept
  <1> DEFINE r == ord[o]
  <1>1. Row(r) /\ r \in OrderType /\ ord \in [Orders -> OrderType] /\ stock \in Int
    BY Types DEF IInv
  <1>2. ev' = ev /\ desk' = desk
    BY DEF ExpireOrder
  <1>3. CASE ExpireTicketOrder(o)
    <2> DEFINE tk == IF r.ticket = "pending" THEN "cancelled" ELSE r.ticket
               pay == IF r.pay \in Unsettled \union {"review_required"} THEN "expired" ELSE r.pay
               row == [r EXCEPT !.status = "expired", !.released = TRUE,
                                !.ticket = tk, !.pay = pay]
    <2>1. ord' = [ord EXCEPT ![o] = row] /\ stock' = stock
      BY <1>1, <1>3 DEF ExpireTicketOrder
    <2>2. r.kind = "ticket" /\ r.status = "pending_payment"
      BY <1>3 DEF ExpireTicketOrder, Lapsed
    <2>3. r.pay # "paid"
      BY <1>1, <2>2 DEF Row, MoneyMatches
    <2>4. /\ tk \in TicketType /\ pay \in PayType /\ "expired" \in StatusType
          /\ pay # "paid" /\ pay \notin Unsettled \union {"review_required"}
          /\ tk = "checked_in" => r.ticket = "checked_in"
      BY <1>1, <2>3
         DEF OrderType, TicketType, PayType, StatusType, TERMINAL_FAILURE_STATUSES, Unsettled
    <2> HIDE DEF tk, pay
    <2>5. row \in OrderType
      BY <1>1, <2>4 DEF OrderType
    <2>6. row.kind = r.kind /\ row.status = "expired" /\ row.pay = pay /\ row.ticket = tk
      BY <1>1 DEF OrderType
    <2>7. row.released
      BY <1>1 DEF OrderType
    <2> HIDE DEF row
    <2>8. Row(row) /\ Follows(r, row)
      BY <2>2, <2>4, <2>5, <2>6, <2>7 DEF Row, Follows, MoneyMatches
    <2> QED BY <1>1, <1>2, <2>1, <2>8, OneOrder
  <1>4. CASE ExpireMerchandiseOrder(o)
    <2>1. /\ r.kind = "merch" /\ stock' = StockAfter(r, TRUE)
          /\ ord' = [ord EXCEPT ![o] = UnpaidRow(r)]
      BY <1>4 DEF ExpireMerchandiseOrder
    <2>2. Row(UnpaidRow(r)) /\ Follows(r, UnpaidRow(r))
      BY <1>1, <2>1, LetGo
    <2>3. stock' \in Int
      BY <1>1, <2>1, StockTyped
    <2> QED BY <1>2, <2>1, <2>2, <2>3, OneOrder
  <1> QED BY <1>3, <1>4 DEF ExpireOrder

-----------------------------------------------------------------------------
(* Money.                                                                  *)

\* What an order nobody holds a ticket of is moved to.
LEMMA StatusWritten ==
    ASSUME NEW r, Row(r), r.kind # "ticket", r.method # "bank_transfer",
           NEW status \in StatusType
    PROVE  LET s == [r EXCEPT !.status = status] IN
             /\ Row(s) /\ Follows(r, s)
             /\ s.kind = r.kind /\ s.method = r.method /\ s.ticket = r.ticket
  <1> DEFINE s == [r EXCEPT !.status = status]
  <1>1. r \in OrderType
    BY DEF Row
  <1>2. s \in OrderType
    BY <1>1 DEF OrderType
  <1>3. s.kind = r.kind /\ s.method = r.method /\ s.ticket = r.ticket
    BY <1>1 DEF OrderType
  <1>4. s.released = r.released
    BY <1>1 DEF OrderType
  <1> HIDE DEF s
  <1>5. Row(s) /\ Follows(r, s)
    BY <1>2, <1>3, <1>4 DEF Row, Follows, MoneyMatches
  <1> QED BY <1>3, <1>5 DEF s

Applied == {"paid", "pending", "review_required"} \union Failed \union Reversed

LEMMA TicketAppliedKeeps ==
    ASSUME NEW r, Row(r), r.kind = "ticket", r.method # "bank_transfer",
           NEW st \in Applied,
           st = "paid" => ~r.released, st = "pending" => r.status # "paid"
    PROVE  LET s == TicketApplied([r EXCEPT !.pay = st], st) IN Row(s) /\ Follows(r, s)
  <1> DEFINE s == TicketApplied([r EXCEPT !.pay = st], st)
  <1>1. r \in OrderType /\ st \in PayType
    BY DEF Row, Applied, PayType, TERMINAL_FAILURE_STATUSES
  <1>2. CASE st = "paid"
    <2> DEFINE tk == IF r.ticket = "pending" THEN "valid" ELSE r.ticket
               row == [r EXCEPT !.pay = st, !.status = "paid", !.released = FALSE, !.ticket = tk]
    <2>1. s = row
      BY <1>1, <1>2 DEF TicketApplied, OrderType
    <2>2. /\ tk \in TicketType /\ "paid" \in StatusType
          /\ tk = "checked_in" => r.ticket = "checked_in"
      BY <1>1 DEF OrderType, TicketType, StatusType
    <2> HIDE DEF tk
    <2>3. row \in OrderType
      BY <1>1, <2>2 DEF OrderType
    <2>4. row.kind = r.kind /\ row.status = "paid" /\ row.method = r.method /\ row.ticket = tk
      BY <1>1 DEF OrderType
    <2>5. ~row.released
      BY <1>1 DEF OrderType
    <2>6. row.pay = "paid"
      BY <1>1, <1>2 DEF OrderType
    <2> HIDE DEF row, s
    <2>7. Row(row) /\ Follows(r, row)
      BY <1>2, <2>2, <2>3, <2>4, <2>5, <2>6 DEF Row, Follows, MoneyMatches
    <2> QED BY <2>1, <2>7 DEF s
  <1>3. CASE st \in Failed \union Reversed
    <2> DEFINE back == IF st \in Reversed THEN "refunded" ELSE "cancelled"
               status == IF r.status = "expired" THEN r.status ELSE back
               released == r.released \/ r.status # "expired"
               tk == IF r.ticket \in {"pending", "valid"} THEN back ELSE r.ticket
               row == [r EXCEPT !.pay = st, !.status = status, !.released = released,
                                !.ticket = tk]
    <2>1. s = row
      BY <1>1, <1>3 DEF TicketApplied, OrderType, Failed, Reversed
    <2>2. /\ status \in StatusType /\ tk \in TicketType
          /\ status # "paid" /\ st # "paid"
          /\ tk = "checked_in" => r.ticket = "checked_in"
      BY <1>1, <1>3 DEF OrderType, StatusType, TicketType, Failed, Reversed
    <2>3. released \in BOOLEAN /\ (r.released => released)
      OBVIOUS
    <2> HIDE DEF back, status, released, tk
    <2>4. row \in OrderType
      BY <1>1, <2>2, <2>3 DEF OrderType
    <2>5. /\ row.kind = r.kind /\ row.status = status /\ row.method = r.method
          /\ row.ticket = tk /\ row.pay = st
      BY <1>1 DEF OrderType
    <2>6. row.released = released
      BY <1>1 DEF OrderType
    <2> HIDE DEF row, s
    <2>7. Row(row) /\ Follows(r, row)
      BY <2>2, <2>3, <2>4, <2>5, <2>6 DEF Row, Follows, MoneyMatches
    <2> QED BY <2>1, <2>7 DEF s
  <1>4. CASE st \in {"pending", "review_required"}
    <2> DEFINE row == [r EXCEPT !.pay = st]
    <2>1. s = row
      BY <1>4 DEF TicketApplied, Failed, Reversed
    <2>2. row \in OrderType
      BY <1>1 DEF OrderType
    <2>3. /\ row.kind = r.kind /\ row.status = r.status /\ row.method = r.method
          /\ row.ticket = r.ticket /\ row.pay = st
      BY <1>1 DEF OrderType
    <2>4. row.released = r.released
      BY <1>1 DEF OrderType
    <2> HIDE DEF row, s
    <2>5. Row(row) /\ Follows(r, row)
      BY <1>4, <2>2, <2>3, <2>4 DEF Row, Follows, MoneyMatches
    <2> QED BY <2>1, <2>5 DEF s
  <1> QED BY <1>2, <1>3, <1>4 DEF Applied

LEMMA MerchAppliedKeeps ==
    ASSUME NEW r, Row(r), r.kind # "ticket", r.method # "bank_transfer", NEW st \in Applied
    PROVE  LET s == MerchApplied([r EXCEPT !.pay = st], st) IN Row(s) /\ Follows(r, s)
  <1> DEFINE paid == [r EXCEPT !.pay = st]
             s == MerchApplied(paid, st)
  <1>1. st \in PayType
    BY DEF Applied, PayType, TERMINAL_FAILURE_STATUSES
  <1>2. /\ Row(paid) /\ Follows(r, paid)
        /\ paid.kind = r.kind /\ paid.method = r.method /\ paid.ticket = r.ticket
    BY <1>1, PayWritten
  <1> HIDE DEF paid
  <1>3. CASE st = "paid"
    <2>1. s = [paid EXCEPT !.status = "paid"] /\ "paid" \in StatusType
      BY <1>3 DEF MerchApplied, StatusType
    <2> HIDE DEF s
    <2>2. Row(s) /\ Follows(paid, s) /\ s.ticket = paid.ticket /\ s.kind = paid.kind
      BY <1>2, <2>1, StatusWritten
    <2> QED BY <1>2, <2>2 DEF Follows, s, paid
  <1>4. CASE st \in Failed \union Reversed
    <2> DEFINE status == IF st \in Reversed THEN "refunded" ELSE "cancelled"
               restore == paid.status # "fulfilled"
    <2>1. s = ReleasedRow(paid, status, restore)
      BY <1>4 DEF MerchApplied, Failed, Reversed
    <2>2. status \in {"cancelled", "refunded"} /\ restore \in BOOLEAN
      OBVIOUS
    <2> HIDE DEF s, status, restore
    <2>3. Row(s) /\ Follows(paid, s) /\ s.ticket = paid.ticket /\ s.kind = paid.kind
      BY <1>2, <2>1, <2>2, ReleasedRowKeeps
    <2> QED BY <1>2, <2>3 DEF Follows, s, paid
  <1>5. CASE st \notin {"paid"} \union Failed \union Reversed
    <2>1. s = paid
      BY <1>5 DEF MerchApplied
    <2> QED BY <1>2, <2>1 DEF paid
  <1> QED BY <1>3, <1>4, <1>5

LEMMA SettleKeeps ==
    ASSUME IInv, NEW o \in Orders, ord[o].method # "bank_transfer", NEW st \in Applied,
           st = "paid" => ~ord[o].released,
           st = "pending" /\ ord[o].kind = "ticket" => ord[o].status # "paid",
           Settle(o, st)
    PROVE  IInv' /\ StepKept
  <1> DEFINE r == [ord[o] EXCEPT !.pay = st]
             row == IF r.kind = "ticket" THEN TicketApplied(r, st) ELSE MerchApplied(r, st)
  <1>1. Row(ord[o]) /\ ord[o] \in OrderType /\ stock \in Int
    BY Types DEF IInv
  <1>2. r.kind = ord[o].kind /\ r \in OrderType
    BY <1>1 DEF OrderType, Applied, PayType, TERMINAL_FAILURE_STATUSES
  <1>3. ord' = [ord EXCEPT ![o] = row] /\ ev' = ev /\ desk' = desk
    BY DEF Settle
  <1>4. stock' \in Int
    BY <1>1, <1>2, StockTyped DEF Settle
  <1>5. Row(row) /\ Follows(ord[o], row)
    <2>1. CASE ord[o].kind = "ticket"
      <3>1. row = TicketApplied(r, st)
        BY <1>2, <2>1
      <3> HIDE DEF row
      <3> QED BY <1>1, <2>1, <3>1, TicketAppliedKeeps
    <2>2. CASE ord[o].kind # "ticket"
      <3>1. row = MerchApplied(r, st)
        BY <1>2, <2>2
      <3> HIDE DEF row
      <3> QED BY <1>1, <2>2, <3>1, MerchAppliedKeeps
    <2> QED BY <2>1, <2>2
  <1> HIDE DEF row
  <1> QED BY <1>3, <1>4, <1>5, OneOrder

LEMMA NotificationKeeps ==
    ASSUME IInv, NEW o \in Orders, NEW code \in Codes, ProcessPayHereNotification(o, code)
    PROVE  IInv' /\ StepKept
  <1> DEFINE r == ord[o]
             st == ReportedStatus(r, code)
  <1>1. Row(r) /\ r \in OrderType
    BY DEF IInv, Row
  <1>2. r.method = "payhere" /\ st # r.pay /\ Settle(o, st)
    BY DEF ProcessPayHereNotification
  <1>3. code \in {"paid", "pending", "cancelled", "failed", "charged_back"}
    BY CommerceAssumption DEF CommerceAssumption
  <1>4. st \in Applied
    BY <1>2, <1>3 DEF ReportedStatus, Applied, Failed, Reversed
  <1>5. st = "paid" => ~r.released
    BY <1>2, <1>3 DEF ReportedStatus, Deliverable
  <1>6. st = "pending" => r.pay \notin {"paid", "review_required"}
    BY <1>2, <1>3 DEF ReportedStatus, TERMINAL_FAILURE_STATUSES
  <1>7. st = "pending" /\ r.kind = "ticket" => r.status # "paid"
    BY <1>1, <1>6 DEF Row, MoneyMatches
  <1> HIDE DEF st
  <1> QED BY <1>2, <1>4, <1>5, <1>7, SettleKeeps

LEMMA ReconciliationKeeps ==
    ASSUME IInv, NEW o \in Orders,
           AcceptPayHerePayment(o) \/ RefundPayHerePayment(o) \/ ReconcileCash(o)
    PROVE  IInv' /\ StepKept
  <1>1. {"paid", "refunded", "cancelled"} \subseteq Applied
    BY DEF Applied, Failed, Reversed
  <1>2. CASE AcceptPayHerePayment(o)
    <2>1. ord[o].method # "bank_transfer" /\ ~ord[o].released /\ Settle(o, "paid")
      BY <1>2 DEF AcceptPayHerePayment
    <2> QED BY <1>1, <2>1, SettleKeeps
  <1>3. CASE RefundPayHerePayment(o)
    <2>1. ord[o].method # "bank_transfer" /\ Settle(o, "refunded")
      BY <1>3 DEF RefundPayHerePayment
    <2> QED BY <1>1, <2>1, SettleKeeps
  <1>4. CASE ReconcileCash(o)
    <2>1. /\ ord[o].method # "bank_transfer"
          /\ (~ord[o].released /\ Settle(o, "paid")) \/ Settle(o, "cancelled")
      BY <1>4 DEF ReconcileCash
    <2>2. CASE ~ord[o].released /\ Settle(o, "paid")
      BY <1>1, <2>1, <2>2, SettleKeeps
    <2>3. CASE Settle(o, "cancelled")
      BY <1>1, <2>1, <2>3, SettleKeeps
    <2> QED BY <2>1, <2>2, <2>3
  <1> QED BY <1>2, <1>3, <1>4

LEMMA ProofKeeps ==
    ASSUME IInv, NEW o \in Orders, SubmitTicketProof(o)
    PROVE  IInv' /\ StepKept
  <1> DEFINE r == ord[o]
             row == [r EXCEPT !.pay = "review_required", !.left = ReviewTime]
  <1>1. /\ Row(r) /\ r \in OrderType /\ ord \in [Orders -> OrderType] /\ stock \in Int
        /\ ReviewTime \in Nat /\ "review_required" \in PayType
    BY Types, CommerceAssumption
       DEF IInv, CommerceAssumption, PayType, TERMINAL_FAILURE_STATUSES
  <1>2. /\ r.method = "bank_transfer" /\ r.pay \in Unsettled \union {"review_required"}
        /\ ord' = [ord EXCEPT ![o] = row]
        /\ ev' = ev /\ stock' = stock /\ desk' = desk
    BY <1>1 DEF SubmitTicketProof
  <1>3. row \in OrderType
    BY <1>1 DEF OrderType
  <1>4. /\ row.kind = r.kind /\ row.status = r.status /\ row.method = r.method
        /\ row.ticket = r.ticket /\ row.pay = "review_required"
    BY <1>1 DEF OrderType
  <1>5. row.released = r.released
    BY <1>1 DEF OrderType
  <1> HIDE DEF row
  <1>6. Row(row) /\ Follows(r, row)
    BY <1>1, <1>2, <1>3, <1>4, <1>5 DEF Row, Follows, MoneyMatches
  <1> QED BY <1>1, <1>2, <1>6, OneOrder

\* A review ends as the provider's answer would: the proof is paid or failed.
LEMMA ReviewKeeps ==
    ASSUME IInv, NEW o \in Orders, ReviewTicketProof(o)
    PROVE  IInv' /\ StepKept
  <1> DEFINE r == ord[o]
             Reviewed(pay, status, released, tk) ==
                [r EXCEPT !.pay = pay, !.status = status, !.released = released, !.ticket = tk]
             valid == IF r.ticket = "pending" THEN "valid" ELSE r.ticket
             void == IF r.ticket = "pending" THEN "cancelled" ELSE r.ticket
  <1>1. Row(r) /\ r \in OrderType /\ ord \in [Orders -> OrderType] /\ stock \in Int
    BY Types DEF IInv
  <1>2. /\ r.method = "bank_transfer" /\ r.pay = "review_required"
        /\ ev' = ev /\ stock' = stock /\ desk' = desk
    BY DEF ReviewTicketProof
  <1>3. ~r.released /\ r.kind # "merch"
    BY <1>1, <1>2 DEF Row
  <1>4. \/ ord' = [ord EXCEPT ![o] = Reviewed("paid", "paid", FALSE, valid)]
        \/ ord' = [ord EXCEPT ![o] = Reviewed("failed", "cancelled", TRUE, void)]
    BY <1>1 DEF ReviewTicketProof
  <1>5. ASSUME NEW pay \in PayType, NEW status \in StatusType, NEW released \in BOOLEAN,
               NEW tk \in TicketType,
               ord' = [ord EXCEPT ![o] = Reviewed(pay, status, released, tk)],
               tk = "checked_in" => r.ticket = "checked_in",
               \/ pay = "paid" /\ status = "paid" /\ ~released
               \/ pay = "failed" /\ status = "cancelled"
        PROVE  IInv' /\ StepKept
    <2> DEFINE row == Reviewed(pay, status, released, tk)
    <2>1. row \in OrderType
      BY <1>1, <1>5 DEF OrderType
    <2>2. /\ row.kind = r.kind /\ row.status = status /\ row.method = r.method
          /\ row.ticket = tk /\ row.pay = pay
      BY <1>1 DEF OrderType
    <2>3. row.released = released
      BY <1>1 DEF OrderType
    <2> HIDE DEF row
    <2>4. Row(row) /\ Follows(r, row)
      BY <1>2, <1>3, <1>5, <2>1, <2>2, <2>3 DEF Row, Follows, MoneyMatches, Unsettled
    <2>5. ord' = [ord EXCEPT ![o] = row]
      BY <1>5 DEF row
    <2> QED BY <1>1, <1>2, <2>4, <2>5, OneOrder
  <1>6. /\ {valid, void} \subseteq TicketType
        /\ {"paid", "failed"} \subseteq PayType /\ {"paid", "cancelled"} \subseteq StatusType
        /\ valid = "checked_in" => r.ticket = "checked_in"
        /\ void = "checked_in" => r.ticket = "checked_in"
    BY <1>1 DEF OrderType, TicketType, PayType, StatusType, TERMINAL_FAILURE_STATUSES, Failed
  <1> HIDE DEF valid, void
  <1> QED BY <1>4, <1>5, <1>6

-----------------------------------------------------------------------------
(* The gate and the desk.                                                  *)

\* A row whose ticket changes, and perhaps the mark of its check-in.
LEMMA TicketWritten ==
    ASSUME NEW r, Row(r), NEW tk \in TicketType, NEW checkedIn \in BOOLEAN,
           tk = "checked_in" /\ r.ticket # "checked_in" => ~r.checkedIn
    PROVE  LET s == [r EXCEPT !.ticket = tk, !.checkedIn = checkedIn]
           IN Row(s) /\ Follows(r, s)
  <1> DEFINE s == [r EXCEPT !.ticket = tk, !.checkedIn = checkedIn]
  <1>1. r \in OrderType
    BY DEF Row
  <1>2. s \in OrderType
    BY <1>1 DEF OrderType
  <1>3. /\ s.kind = r.kind /\ s.status = r.status /\ s.method = r.method
        /\ s.ticket = tk /\ s.pay = r.pay
    BY <1>1 DEF OrderType
  <1>4. s.released = r.released
    BY <1>1 DEF OrderType
  <1> HIDE DEF s
  <1>5. Row(s) /\ Follows(r, s)
    BY <1>2, <1>3, <1>4 DEF Row, Follows, MoneyMatches
  <1> QED BY <1>5 DEF s

LEMMA ScanKeeps ==
    ASSUME IInv, NEW o \in Orders, ScanTicket(o)
    PROVE  IInv' /\ StepKept
  <1> DEFINE r == ord[o]
             row == [r EXCEPT !.ticket = "checked_in", !.checkedIn = TRUE]
  <1>1. Row(r) /\ r \in OrderType /\ ord \in [Orders -> OrderType] /\ stock \in Int
    BY Types DEF IInv
  <1>2. /\ ord' = [ord EXCEPT ![o] = row]
        /\ ~r.checkedIn /\ ev' = ev /\ stock' = stock /\ desk' = desk
    BY <1>1 DEF ScanTicket, MayAdmit
  <1>3. "checked_in" \in TicketType /\ TRUE \in BOOLEAN
    BY DEF TicketType
  <1>4. Row(row) /\ Follows(r, row)
    BY <1>1, <1>2, <1>3, TicketWritten
  <1> HIDE DEF row
  <1> QED BY <1>1, <1>2, <1>4, OneOrder

LEMMA UpdateTicketKeeps ==
    ASSUME IInv, NEW o \in Orders, UpdateTicketStatus(o)
    PROVE  IInv' /\ StepKept
  <1> DEFINE r == ord[o]
  <1>1. Row(r) /\ r \in OrderType /\ ord \in [Orders -> OrderType] /\ stock \in Int
    BY Types DEF IInv
  <1>2. PICK tk \in {"cancelled", "valid"} : ord' = [ord EXCEPT ![o].ticket = tk]
    BY DEF UpdateTicketStatus
  <1>3. desk' = Idle /\ ev' = ev /\ stock' = stock
    BY DEF UpdateTicketStatus, Done
  <1> DEFINE row == [r EXCEPT !.ticket = tk, !.checkedIn = r.checkedIn]
  <1>4. ord' = [ord EXCEPT ![o] = row] /\ r.checkedIn \in BOOLEAN /\ tk \in TicketType
    BY <1>1, <1>2 DEF OrderType, TicketType
  <1>5. Row(row) /\ Follows(r, row)
    BY <1>1, <1>4, TicketWritten
  <1> HIDE DEF row
  <1> QED BY <1>1, <1>3, <1>4, <1>5, OneOrder

LEMMA FulfilKeeps ==
    ASSUME IInv, NEW o \in Orders, FulfilOrder(o)
    PROVE  IInv' /\ StepKept
  <1> DEFINE r == ord[o]
             row == [r EXCEPT !.status = desk.task]
  <1>1. Row(r) /\ ord \in [Orders -> OrderType] /\ stock \in Int
    BY Types DEF IInv
  <1>2. /\ desk.task \in {"processing", "fulfilled"} /\ desk.o = o /\ desk' = Idle
        /\ ev' = ev /\ stock' = stock /\ ord' = [ord EXCEPT ![o] = row]
    BY <1>1 DEF FulfilOrder, Done
  <1>3. r.kind = "merch"
    BY <1>2 DEF IInv, DeskNamed
  <1>4. r.kind # "ticket" /\ r.method # "bank_transfer" /\ desk.task \in StatusType
    BY <1>1, <1>2, <1>3 DEF Row, StatusType
  <1>5. Row(row) /\ Follows(r, row)
    BY <1>1, <1>4, StatusWritten
  <1> HIDE DEF row
  <1> QED BY <1>1, <1>2, <1>5, OneOrder

LEMMA CancelKeeps ==
    ASSUME IInv, NEW o \in Orders, CancelOrder(o)
    PROVE  IInv' /\ StepKept
  <1>1. /\ desk.task = "cancelOrder" /\ desk.o = o /\ desk' = Idle /\ ev' = ev
        /\ stock' = StockAfter(ord[o], TRUE)
        /\ ord' = [ord EXCEPT ![o] = UnpaidRow(ord[o])]
    BY DEF CancelOrder, Done
  <1>2. Row(ord[o]) /\ ord[o].kind = "merch" /\ ord[o] \in OrderType
    BY <1>1 DEF IInv, DeskNamed, Row
  <1>3. Row(UnpaidRow(ord[o])) /\ Follows(ord[o], UnpaidRow(ord[o]))
    BY <1>2, LetGo
  <1>4. stock' \in Int
    BY <1>1, <1>2, StockTyped
  <1> QED BY <1>1, <1>3, <1>4, OneOrder

LEMMA DeskKeeps ==
    ASSUME IInv,
           \/ \E o \in Orders : DeskReads(o)
           \/ OpenProductForm \/ SaveAdminProduct
    PROVE  IInv' /\ StepKept
  <1>1. /\ ord \in [Orders -> OrderType] /\ desk \in DeskType /\ stock \in Int
        /\ ev \in [status: {"on_sale", "cancelled"}, capacity: Capacities]
    BY Types
  <1>2. ord' = ord /\ ev' = ev
    BY DEF DeskReads, OpenProductForm, SaveAdminProduct
  <1>3. stock' \in Int /\ desk' \in DeskType /\ DeskNamed'
    <2>1. ASSUME NEW o \in Orders, DeskReads(o)
          PROVE  stock' \in Int /\ desk' \in DeskType /\ DeskNamed'
      <3>1. PICK task \in DeskTasks :
              /\ MayOpen(task, o) /\ desk' = [Idle EXCEPT !.task = task, !.o = o]
              /\ stock' = stock
        BY <2>1 DEF DeskReads
      <3>2. desk' = [task |-> task, o |-> o, form |-> 0]
        BY <3>1 DEF Idle
      <3>3. desk'.task = task /\ desk'.o = o
        BY <3>2
      <3>4. desk' \in DeskType
        BY <3>2 DEF DeskType, DeskTasks
      <3>5. /\ task \in {"cancelTicket", "restoreTicket"} => ord[o].kind = "ticket"
            /\ task \in {"processing", "fulfilled", "cancelOrder"} => ord[o].kind = "merch"
        BY <3>1 DEF MayOpen
      <3> QED BY <1>1, <1>2, <3>1, <3>3, <3>4, <3>5 DEF DeskNamed
    <2>2. CASE OpenProductForm
      BY <1>1, <2>2 DEF OpenProductForm, Idle, DeskType, DeskNamed
    <2>3. CASE SaveAdminProduct
      BY <1>1, <2>3 DEF SaveAdminProduct, Idle, DeskType, DeskNamed
    <2> QED BY <2>1, <2>2, <2>3
  <1>4. TypeOK'
    BY <1>1, <1>2, <1>3 DEF TypeOK, OrderType, DeskType, PayType, StatusType, TicketType
  <1> QED BY <1>2, <1>3, <1>4 DEF IInv, StepKept, Follows

LEMMA EventKeeps ==
    ASSUME IInv, SaveAdminEvent
    PROVE  IInv' /\ StepKept
  <1>1. ord' = ord /\ desk' = desk /\ stock' = stock
    BY DEF SaveAdminEvent
  <1>2. ev' \in [status: {"on_sale", "cancelled"}, capacity: Capacities]
    BY DEF SaveAdminEvent
  <1>3. TypeOK'
    BY <1>1, <1>2 DEF IInv, TypeOK
  <1> QED BY <1>1, <1>3 DEF IInv, DeskNamed, StepKept, Follows

LEMMA TickKeeps ==
    ASSUME IInv, Tick
    PROVE  IInv' /\ StepKept
  <1>1. /\ ord \in [Orders -> OrderType] /\ desk \in DeskType /\ stock \in Int
        /\ ev \in [status: {"on_sale", "cancelled"}, capacity: Capacities]
    BY Types
  <1> DEFINE left(o) == IF ord[o].left > 0 THEN ord[o].left - 1 ELSE ord[o].left
             row(o) == [ord[o] EXCEPT !.left = left(o)]
  <1>2. /\ ord' = [o \in Orders |-> row(o)]
        /\ ev' = ev /\ stock' = stock /\ desk' = desk
    BY DEF Tick
  <1>3. ASSUME NEW o \in Orders
        PROVE  /\ row(o) \in OrderType /\ Row(row(o)) /\ Follows(ord[o], row(o))
               /\ row(o).kind = ord[o].kind
    <2> DEFINE r == ord[o]
               gone == left(o)
               s == [r EXCEPT !.left = gone]
    <2>1. r \in OrderType /\ Row(r)
      BY <1>1 DEF IInv
    <2>2. gone \in {Never} \union Nat
      BY <2>1 DEF OrderType, Never
    <2> HIDE DEF gone
    <2>3. s \in OrderType
      BY <2>1, <2>2 DEF OrderType
    <2>4. /\ s.kind = r.kind /\ s.status = r.status /\ s.method = r.method
          /\ s.ticket = r.ticket /\ s.pay = r.pay
      BY <2>1 DEF OrderType
    <2>5. s.released = r.released
      BY <2>1 DEF OrderType
    <2>6. row(o) = s
      BY DEF gone
    <2> HIDE DEF s
    <2>7. Row(s) /\ Follows(r, s)
      BY <2>1, <2>3, <2>4, <2>5 DEF Row, Follows, MoneyMatches
    <2> HIDE DEF row
    <2> QED BY <2>3, <2>4, <2>6, <2>7
  <1> HIDE DEF row
  <1>4. ord' \in [Orders -> OrderType] /\ \A o \in Orders : ord'[o] = row(o)
    BY <1>2, <1>3
  <1>5. TypeOK'
    BY <1>1, <1>2, <1>4 DEF TypeOK, OrderType, DeskType, PayType, StatusType, TicketType
  <1>6. DeskNamed'
    BY <1>2, <1>3, <1>4 DEF IInv, DeskNamed
  <1> QED BY <1>3, <1>4, <1>5, <1>6 DEF IInv, StepKept

-----------------------------------------------------------------------------
(* Every step.                                                             *)

LEMMA StepKeeps ==
    ASSUME IInv, [Next]_vars
    PROVE  IInv' /\ StepKept
  <1>1. ASSUME NEW o \in Orders, Settlement(o)
        PROVE  IInv' /\ StepKept
    BY <1>1, NotificationKeeps, ReconciliationKeeps, ProofKeeps, ReviewKeeps DEF Settlement
  <1>2. ASSUME NEW o \in Orders,
               \/ CreateTicketOrder(o) \/ CreateMerchandiseOrder(o) \/ ExpireOrder(o)
               \/ ScanTicket(o) \/ DeskReads(o) \/ UpdateTicketStatus(o)
               \/ FulfilOrder(o) \/ CancelOrder(o)
        PROVE  IInv' /\ StepKept
    BY <1>2, TicketOrderKeeps, MerchandiseOrderKeeps, ExpireKeeps, ScanKeeps, DeskKeeps,
       UpdateTicketKeeps, FulfilKeeps, CancelKeeps
  <1>3. CASE UNCHANGED vars
    <2>1. ord' = ord /\ ev' = ev /\ desk' = desk /\ stock' = stock
      BY <1>3 DEF vars
    <2> QED BY <2>1 DEF IInv, TypeOK, DeskNamed, StepKept, Follows
  <1>4. CASE SaveAdminEvent \/ Tick \/ OpenProductForm \/ SaveAdminProduct
    BY <1>4, EventKeeps, TickKeeps, DeskKeeps
  <1> QED BY <1>1, <1>2, <1>3, <1>4 DEF Next

-----------------------------------------------------------------------------
(* Totals over orders, for any rows: Units(S) is Total(ord, S).            *)

Counted(rows, S) == {u \in S \X (1..MaxQuantity) : u[2] <= rows[u[1]].qty}

Total(rows, S) == Cardinality(Counted(rows, S))

LEMMA CountedFinite ==
    ASSUME NEW rows, NEW S \in SUBSET Orders
    PROVE  IsFiniteSet(Counted(rows, S)) /\ Total(rows, S) \in Nat
  <1>1. IsFiniteSet(S) /\ IsFiniteSet(1..MaxQuantity)
    BY CommerceAssumption, FS_Subset, FS_Interval DEF CommerceAssumption
  <1>2. IsFiniteSet(S \X (1..MaxQuantity))
    BY <1>1, FS_Product
  <1>3. Counted(rows, S) \in SUBSET (S \X (1..MaxQuantity))
    BY DEF Counted
  <1>4. IsFiniteSet(Counted(rows, S))
    BY <1>2, <1>3, FS_Subset
  <1> QED BY <1>4, FS_CardinalityType DEF Total

LEMMA TotalAdds ==
    ASSUME NEW rows, NEW S \in SUBSET Orders, NEW T \in SUBSET Orders, S \cap T = {}
    PROVE  Total(rows, S \union T) = Total(rows, S) + Total(rows, T)
  <1> DEFINE C == Counted(rows, S)
             D == Counted(rows, T)
  <1>1. IsFiniteSet(C) /\ IsFiniteSet(D) /\ Cardinality(C) \in Nat /\ Cardinality(D) \in Nat
    BY CountedFinite DEF Total
  <1>2. Counted(rows, S \union T) = C \union D /\ C \cap D = {}
    BY DEF Counted
  <1> HIDE DEF C, D
  <1>3. Cardinality(C \union D) = Cardinality(C) + Cardinality(D) - Cardinality(C \cap D)
    BY <1>1, FS_Union
  <1>4. Cardinality(C \cap D) = 0
    BY <1>2, FS_EmptySet
  <1>5. Cardinality(C \union D) = Cardinality(C) + Cardinality(D)
    BY <1>1, <1>3, <1>4
  <1> QED BY <1>2, <1>5 DEF Total, C, D

LEMMA TotalOfOne ==
    ASSUME NEW rows, NEW o \in Orders, NEW q \in 0..MaxQuantity, rows[o].qty = q
    PROVE  Total(rows, {o}) = q
  <1>1. q \in Nat /\ q \in Int /\ q <= MaxQuantity /\ MaxQuantity \in Nat
    BY CommerceAssumption DEF CommerceAssumption
  <1>2. Counted(rows, {o}) = {o} \X (1..q)
    BY <1>1 DEF Counted
  <1>3. IsFiniteSet({o}) /\ Cardinality({o}) = 1
    BY FS_Singleton
  <1>4. IsFiniteSet(1..q)
    BY <1>1, FS_Interval
  <1>5. Cardinality(1..q) = IF 1 > q THEN 0 ELSE q - 1 + 1
    BY <1>1, FS_Interval
  <1>6. Cardinality(1..q) = q
    BY <1>1, <1>5
  <1>7. Cardinality({o} \X (1..q)) = Cardinality({o}) * Cardinality(1..q)
    BY <1>3, <1>4, FS_Product
  <1>8. Cardinality({o} \X (1..q)) = q
    BY <1>1, <1>3, <1>6, <1>7
  <1> QED BY <1>2, <1>8 DEF Total

LEMMA TotalKept ==
    ASSUME NEW rows, NEW others, NEW S, \A o \in S : others[o].qty = rows[o].qty
    PROVE  Total(others, S) = Total(rows, S)
  <1>1. Counted(others, S) = Counted(rows, S)
    BY DEF Counted
  <1> QED BY <1>1 DEF Total

LEMMA TotalGrows ==
    ASSUME NEW rows, NEW T \in SUBSET Orders, NEW S \in SUBSET T
    PROVE  Total(rows, S) <= Total(rows, T)
  <1>1. IsFiniteSet(Counted(rows, T)) /\ Counted(rows, S) \in SUBSET Counted(rows, T)
    BY CountedFinite DEF Counted
  <1> QED BY <1>1, FS_Subset DEF Total

\* The part of a total that one order makes up.
LEMMA TotalApart ==
    ASSUME NEW rows \in [Orders -> OrderType], NEW S \in SUBSET Orders, NEW o \in Orders
    PROVE  /\ Total(rows, S) = Total(rows, S \ {o}) + IF o \in S THEN rows[o].qty ELSE 0
           /\ Total(rows, S \ {o}) \in Nat /\ rows[o].qty \in Nat
  <1>1. rows[o].qty \in 0..MaxQuantity /\ rows[o].qty \in Nat
    BY CommerceAssumption DEF OrderType, CommerceAssumption
  <1>2. Total(rows, S \ {o}) \in Nat
    BY CountedFinite
  <1>3. CASE o \in S
    <2>1. /\ S = (S \ {o}) \union {o} /\ (S \ {o}) \cap {o} = {}
          /\ S \ {o} \in SUBSET Orders /\ {o} \in SUBSET Orders
      BY <1>3
    <2>2. Total(rows, (S \ {o}) \union {o}) = Total(rows, S \ {o}) + Total(rows, {o})
      BY <2>1, TotalAdds
    <2>3. Total(rows, {o}) = rows[o].qty
      BY <1>1, TotalOfOne
    <2> QED BY <1>1, <1>2, <1>3, <2>1, <2>2, <2>3
  <1>4. CASE o \notin S
    <2>1. S \ {o} = S
      BY <1>4
    <2> QED BY <1>1, <1>2, <1>4, <2>1
  <1> QED BY <1>3, <1>4

-----------------------------------------------------------------------------
(* Places of the event and stock of the product.                           *)

ActiveRow(r) ==
    /\ r.kind = "ticket"
    /\ \/ r.status = "paid"
       \/ r.status = "pending_payment" /\ ~r.released /\ r.left > 0

\* What an order keeps back of the stock.
HeldRow(r) == r.kind = "merch" /\ (~r.released \/ r.unreturned)

Holds(r) == IF HeldRow(r) THEN r.qty ELSE 0

\* A ticket order has a window, and while its money is open, or a proof is under
\* review, it still waits for the money: it becomes paid only from there.
Stands(r) ==
    /\ r.kind = "ticket" =>
         /\ r.left # Never /\ r.pay # "none"
         /\ r.pay \in Unsettled => r.status = "pending_payment"
    /\ r.method = "bank_transfer" /\ r.pay = "review_required" =>
         r.status = "pending_payment"
    /\ r.kind = "none" => r.method = "none"

PlacesInv ==
    /\ \A o \in Orders : Stands(ord[o])
    /\ NeverOversold

OthersKept(o) == \A p \in Orders \ {o} : ord'[p] = ord[p]

\* What a step on order o does to the places: it takes none that it had not, or
\* takes them where they are to spare.
Accounted(o) ==
    /\ OthersKept(o)
    /\ Stands(ord'[o])
    /\ ActiveRow(ord'[o]) =>
         \/ ActiveRow(ord[o]) /\ ord'[o].qty = ord[o].qty
         \/ Spare(o, ord'[o].qty)

Balanced == stock' + Units(Held)' = stock + Units(Held)

LEMMA AccountedKeeps ==
    ASSUME IInv, IInv', PlacesInv, NEW o \in Orders, Accounted(o), ev' = ev
    PROVE  PlacesInv'
  <1> DEFINE A == {p \in Orders : ActiveRow(ord[p])}
             B == {p \in Orders : ActiveRow(ord'[p])}
             rest == Total(ord, A \ {o})
  <1>1. /\ Reserved(Orders) = Total(ord, A) /\ Reserved(Orders)' = Total(ord', B)
        /\ Reserved(Orders \ {o}) = rest
    <2>1. /\ {p \in Orders : ActiveOrder(p)} = A
          /\ {p \in Orders \ {o} : ActiveOrder(p)} = A \ {o}
          /\ {p \in Orders : ActiveOrder(p)'} = B
      BY DEF ActiveOrder, ActiveRow
    <2> HIDE DEF A, B
    <2> QED BY <2>1 DEF Reserved, Units, Total, Counted
  <1>2. /\ ord \in [Orders -> OrderType] /\ ord' \in [Orders -> OrderType]
        /\ A \in SUBSET Orders /\ B \in SUBSET Orders
    BY DEF IInv, TypeOK, OrderType, PayType, StatusType, TicketType
  <1>3. B \ {o} = A \ {o}
    BY DEF Accounted, OthersKept
  <1>4. Total(ord', B \ {o}) = rest
    <2>1. \A p \in A \ {o} : ord'[p].qty = ord[p].qty
      BY DEF Accounted, OthersKept
    <2> HIDE DEF A, B
    <2>2. Total(ord', A \ {o}) = Total(ord, A \ {o})
      BY <2>1, TotalKept
    <2> QED BY <1>3, <2>2
  <1>5. ev.capacity \in Nat /\ Total(ord, A) <= ev.capacity
    BY <1>1, Types, CommerceAssumption DEF PlacesInv, NeverOversold, CommerceAssumption
  <1>6. o \in B <=> ActiveRow(ord'[o])
    OBVIOUS
  <1>7. o \in A <=> ActiveRow(ord[o])
    OBVIOUS
  <1> HIDE DEF A, B
  <1>8. /\ Total(ord', B) = rest + IF o \in B THEN ord'[o].qty ELSE 0
        /\ Total(ord, A) = rest + IF o \in A THEN ord[o].qty ELSE 0
        /\ rest \in Nat /\ ord'[o].qty \in Nat /\ ord[o].qty \in Nat
    <2>1. /\ Total(ord', B) = Total(ord', B \ {o}) + IF o \in B THEN ord'[o].qty ELSE 0
          /\ ord'[o].qty \in Nat
      BY <1>2, TotalApart
    <2>2. /\ Total(ord, A) = rest + IF o \in A THEN ord[o].qty ELSE 0
          /\ rest \in Nat /\ ord[o].qty \in Nat
      BY <1>2, TotalApart
    <2> QED BY <1>4, <2>1, <2>2
  <1>9. o \in B => \/ o \in A /\ ord'[o].qty = ord[o].qty
                   \/ rest + ord'[o].qty <= ev.capacity
    BY <1>1, <1>6, <1>7 DEF Accounted, Spare
  <1> HIDE DEF rest
  <1>10. Total(ord', B) <= ev.capacity
    BY <1>5, <1>8, <1>9
  <1>11. \A p \in Orders : Stands(ord'[p])
    BY DEF Accounted, OthersKept, PlacesInv
  <1> QED BY <1>1, <1>10, <1>11 DEF PlacesInv, NeverOversold

LEMMA HoldsBalance ==
    ASSUME IInv, IInv', NEW o \in Orders,
           OthersKept(o), stock' + Holds(ord'[o]) = stock + Holds(ord[o])
    PROVE  Balanced
  <1> DEFINE A == {p \in Orders : HeldRow(ord[p])}
             B == {p \in Orders : HeldRow(ord'[p])}
             rest == Total(ord, A \ {o})
  <1>1. Units(Held) = Total(ord, A) /\ Units(Held)' = Total(ord', B)
    <2>1. Held = A /\ Held' = B
      BY DEF Held, HeldRow
    <2> HIDE DEF A, B
    <2> QED BY <2>1 DEF Units, Total, Counted
  <1>2. /\ ord \in [Orders -> OrderType] /\ ord' \in [Orders -> OrderType]
        /\ A \in SUBSET Orders /\ B \in SUBSET Orders
    BY DEF IInv, TypeOK, OrderType, PayType, StatusType, TicketType
  <1>3. B \ {o} = A \ {o}
    BY DEF OthersKept
  <1>4. Total(ord', B \ {o}) = rest
    <2>1. \A p \in A \ {o} : ord'[p].qty = ord[p].qty
      BY DEF OthersKept
    <2> HIDE DEF A, B
    <2>2. Total(ord', A \ {o}) = Total(ord, A \ {o})
      BY <2>1, TotalKept
    <2> QED BY <1>3, <2>2
  <1>5. /\ Holds(ord[o]) = IF o \in A THEN ord[o].qty ELSE 0
        /\ Holds(ord'[o]) = IF o \in B THEN ord'[o].qty ELSE 0
    BY DEF Holds
  <1> HIDE DEF A, B
  <1>6. /\ Total(ord', B) = rest + Holds(ord'[o]) /\ Total(ord, A) = rest + Holds(ord[o])
        /\ rest \in Nat /\ Holds(ord'[o]) \in Nat /\ Holds(ord[o]) \in Nat
    <2>1. /\ Total(ord', B) = Total(ord', B \ {o}) + IF o \in B THEN ord'[o].qty ELSE 0
          /\ ord'[o].qty \in Nat
      BY <1>2, TotalApart
    <2>2. /\ Total(ord, A) = rest + IF o \in A THEN ord[o].qty ELSE 0
          /\ rest \in Nat /\ ord[o].qty \in Nat
      BY <1>2, TotalApart
    <2> QED BY <1>4, <1>5, <2>1, <2>2
  <1>7. stock \in Int /\ stock' \in Int
    BY DEF IInv, TypeOK
  <1> HIDE DEF rest
  <1> QED BY <1>1, <1>6, <1>7 DEF Balanced

\* What a step on order o does to the places and to the stock.
Booked(o) == Accounted(o) /\ stock' + Holds(ord'[o]) = stock + Holds(ord[o])

LEMMA BookedKeeps ==
    ASSUME IInv, IInv', PlacesInv, NEW o \in Orders, Booked(o), ev' = ev
    PROVE  PlacesInv' /\ Balanced
  <1>1. Accounted(o) /\ OthersKept(o) /\ stock' + Holds(ord'[o]) = stock + Holds(ord[o])
    BY DEF Booked, Accounted
  <1> QED BY <1>1, AccountedKeeps, HoldsBalance

LEMMA Rewritten ==
    ASSUME IInv, NEW o \in Orders, NEW row, ord' = [ord EXCEPT ![o] = row]
    PROVE  ord'[o] = row /\ OthersKept(o)
  BY Types DEF OthersKept

\* A ticket order that takes no places it had not.
LEMMA TicketBooked ==
    ASSUME IInv, NEW o \in Orders, NEW row, ord' = [ord EXCEPT ![o] = row],
           ord[o].kind = "ticket", row.kind = "ticket", row.qty = ord[o].qty,
           Stands(row), ActiveRow(row) => ActiveRow(ord[o]) \/ Spare(o, row.qty),
           stock' = stock
    PROVE  Booked(o)
  <1>1. ord'[o] = row /\ OthersKept(o)
    BY Rewritten
  <1>2. Holds(row) = 0 /\ Holds(ord[o]) = 0
    BY DEF Holds, HeldRow
  <1> QED BY <1>1, <1>2 DEF Booked, Accounted

\* An order that is for no ticket takes no places.
LEMMA MerchBooked ==
    ASSUME IInv, NEW o \in Orders, NEW row, ord' = [ord EXCEPT ![o] = row],
           row.kind = "merch", row.method # "bank_transfer",
           stock' + Holds(row) = stock + Holds(ord[o])
    PROVE  Booked(o)
  <1>1. ord'[o] = row /\ OthersKept(o)
    BY Rewritten
  <1> QED BY <1>1 DEF Booked, Accounted, Stands, ActiveRow

LEMMA TicketOrderBooked ==
    ASSUME IInv, NEW o \in Orders, CreateTicketOrder(o)
    PROVE  Booked(o)
  <1>1. PICK q \in 1..MaxQuantity, m \in Methods :
          /\ ord[o] = Blank /\ Spare(o, q)
          /\ ord' = [ord EXCEPT ![o] = [Blank EXCEPT
                  !.kind = "ticket", !.qty = q, !.status = "pending_payment",
                  !.left = HoldTime, !.method = m, !.ticket = "pending",
                  !.pay = IF m = "payhere" THEN "created" ELSE "pending"]]
          /\ UNCHANGED <<ev, stock, desk>>
    BY DEF CreateTicketOrder
  <1> DEFINE row == [Blank EXCEPT
                  !.kind = "ticket", !.qty = q, !.status = "pending_payment",
                  !.left = HoldTime, !.method = m, !.ticket = "pending",
                  !.pay = IF m = "payhere" THEN "created" ELSE "pending"]
  <1>2. /\ row.kind = "ticket" /\ row.qty = q /\ row.left = HoldTime
        /\ row.status = "pending_payment" /\ row.pay \in {"created", "pending"}
    BY DEF Blank
  <1>3. ord'[o] = row /\ OthersKept(o)
    BY <1>1, Rewritten
  <1> HIDE DEF row
  <1>4. Holds(row) = 0 /\ Holds(ord[o]) = 0 /\ stock' = stock
    BY <1>1, <1>2, BlankTyped DEF Holds, HeldRow
  <1>5. HoldTime \in Nat
    BY CommerceAssumption DEF CommerceAssumption
  <1>6. Stands(row)
    BY <1>2, <1>5 DEF Stands, Never
  <1> QED BY <1>1, <1>2, <1>3, <1>4, <1>6 DEF Booked, Accounted

LEMMA MerchandiseOrderBooked ==
    ASSUME IInv, NEW o \in Orders, CreateMerchandiseOrder(o)
    PROVE  Booked(o)
  <1>1. PICK q \in 1..MaxQuantity :
          /\ ord[o] = Blank /\ stock' = stock - q
          /\ ord' = [ord EXCEPT ![o] = [Blank EXCEPT
                  !.kind = "merch", !.qty = q, !.status = "pending_payment",
                  !.left = HoldTime, !.method = "payhere", !.pay = "created"]]
          /\ UNCHANGED <<ev, desk>>
    BY DEF CreateMerchandiseOrder
  <1> DEFINE row == [Blank EXCEPT
                  !.kind = "merch", !.qty = q, !.status = "pending_payment",
                  !.left = HoldTime, !.method = "payhere", !.pay = "created"]
  <1>2. row.kind = "merch" /\ row.qty = q /\ row.method = "payhere" /\ ~row.released
    BY DEF Blank
  <1>3. ord' = [ord EXCEPT ![o] = row]
    BY <1>1
  <1> HIDE DEF row
  <1>4. Holds(row) = q /\ Holds(ord[o]) = 0
    BY <1>1, <1>2, BlankTyped DEF Holds, HeldRow
  <1>5. stock' + q = stock + 0
    BY <1>1, Types
  <1> QED BY <1>2, <1>3, <1>4, <1>5, MerchBooked

\* The release gives back what the order holds, or keeps it where it was handed out.
LEMMA ReleaseBalances ==
    ASSUME IInv, NEW r \in OrderType, r.kind = "merch", NEW restore \in BOOLEAN,
           NEW status
    PROVE  LET s == ReleasedRow(r, status, restore) IN
             /\ StockAfter(r, restore) + Holds(s) = stock + Holds(r)
             /\ s.kind = "merch" /\ s.method = r.method /\ s.qty = r.qty
             /\ s.pay = r.pay /\ Holds([s EXCEPT !.pay = "expired"]) = Holds(s)
             /\ [s EXCEPT !.pay = "expired"].kind = "merch"
             /\ [s EXCEPT !.pay = "expired"].method = r.method
  <1> DEFINE s == ReleasedRow(r, status, restore)
  <1>1. r.qty \in Int /\ stock \in Int
    BY Types, CommerceAssumption DEF CommerceAssumption, OrderType
  <1>2. CASE ~Claims(r)
    BY <1>1, <1>2 DEF ReleasedRow, StockAfter, OrderType, Holds, HeldRow
  <1>3. CASE Claims(r)
    <2> DEFINE t == [r EXCEPT !.released = TRUE, !.status = status, !.unreturned = ~restore]
    <2>1. s = t /\ ~r.released
      BY <1>3 DEF ReleasedRow, Claims
    <2>2. /\ t.kind = "merch" /\ t.method = r.method /\ t.qty = r.qty /\ t.pay = r.pay
          /\ t.released
      BY DEF OrderType
    <2>3. t.unreturned = ~restore
      BY DEF OrderType
    <2>4. /\ [t EXCEPT !.pay = "expired"].kind = "merch"
          /\ [t EXCEPT !.pay = "expired"].method = r.method
          /\ [t EXCEPT !.pay = "expired"].qty = r.qty
      BY DEF OrderType
    <2>5. [t EXCEPT !.pay = "expired"].released /\ [t EXCEPT !.pay = "expired"].unreturned = ~restore
      BY DEF OrderType
    <2>6. /\ Holds(t) = IF restore THEN 0 ELSE r.qty
          /\ Holds([t EXCEPT !.pay = "expired"]) = IF restore THEN 0 ELSE r.qty
          /\ Holds(r) = r.qty
      <3> DEFINE u == [t EXCEPT !.pay = "expired"]
      <3> HIDE DEF u, t
      <3>1. Holds(r) = r.qty
        BY <2>1 DEF Holds, HeldRow
      <3>2. Holds(t) = IF restore THEN 0 ELSE r.qty
        BY <2>2, <2>3 DEF Holds, HeldRow
      <3>3. Holds(u) = IF restore THEN 0 ELSE r.qty
        BY <2>4, <2>5 DEF Holds, HeldRow, u
      <3> QED BY <3>1, <3>2, <3>3 DEF u
    <2>7. StockAfter(r, restore) = IF restore THEN stock + r.qty ELSE stock
      BY <1>3 DEF StockAfter
    <2> HIDE DEF t, s
    <2> QED BY <1>1, <2>1, <2>2, <2>4, <2>6, <2>7 DEF s
  <1> QED BY <1>2, <1>3

\* A shop order let go unpaid gives its stock back, whoever lets it go.
LEMMA UnpaidBooked ==
    ASSUME IInv, NEW o \in Orders, ord[o].kind = "merch",
           ord' = [ord EXCEPT ![o] = UnpaidRow(ord[o])],
           stock' = StockAfter(ord[o], TRUE)
    PROVE  Booked(o)
  <1> DEFINE r == ord[o]
             s == ReleasedRow(r, "cancelled", TRUE)
  <1>1. r \in OrderType /\ r.method = "payhere"
    BY DEF IInv, Row
  <1>2. /\ StockAfter(r, TRUE) + Holds(s) = stock + Holds(r)
        /\ s.kind = "merch" /\ s.method = r.method
        /\ Holds([s EXCEPT !.pay = "expired"]) = Holds(s)
        /\ [s EXCEPT !.pay = "expired"].kind = "merch"
        /\ [s EXCEPT !.pay = "expired"].method = r.method
    BY <1>1, ReleaseBalances
  <1>3. UnpaidRow(r) = [s EXCEPT !.pay = "expired"] \/ UnpaidRow(r) = s
    <2>1. s \in OrderType
      BY <1>1, ReleasedRowKeeps DEF IInv, Row
    <2> HIDE DEF s
    <2>2. CASE s.pay \in Unsettled
      BY <2>2 DEF UnpaidRow, s
    <2>3. CASE s.pay \notin Unsettled
      <3>1. [s EXCEPT !.pay = s.pay] = s
        BY <2>1 DEF OrderType
      <3> QED BY <2>3, <3>1 DEF UnpaidRow, s
    <2> QED BY <2>2, <2>3
  <1> HIDE DEF s
  <1>4. /\ UnpaidRow(r).kind = "merch" /\ UnpaidRow(r).method = "payhere"
        /\ stock' + Holds(UnpaidRow(r)) = stock + Holds(r)
    BY <1>1, <1>2, <1>3
  <1> QED BY <1>4, MerchBooked

LEMMA ExpireBooked ==
    ASSUME IInv, PlacesInv, NEW o \in Orders, ExpireOrder(o)
    PROVE  Booked(o)
  <1> DEFINE r == ord[o]
  <1>1. r \in OrderType /\ Stands(r) /\ ord \in [Orders -> OrderType]
    BY Types DEF IInv, Row, PlacesInv
  <1>2. CASE ExpireTicketOrder(o)
    <2> DEFINE tk == IF r.ticket = "pending" THEN "cancelled" ELSE r.ticket
               pay == IF r.pay \in Unsettled \union {"review_required"} THEN "expired" ELSE r.pay
               row == [r EXCEPT !.status = "expired", !.released = TRUE,
                                !.ticket = tk, !.pay = pay]
    <2>1. ord' = [ord EXCEPT ![o] = row] /\ stock' = stock /\ r.kind = "ticket"
      BY <1>1, <1>2 DEF ExpireTicketOrder
    <2>2. /\ row.kind = "ticket" /\ row.qty = r.qty /\ row.left = r.left
          /\ row.status = "expired" /\ row.pay = pay
      BY <1>1, <2>1 DEF OrderType
    <2>3. pay \notin Unsettled \union {"review_required"} /\ (pay = "none" => r.pay = "none")
      BY DEF Unsettled
    <2> HIDE DEF row, pay, tk
    <2>4. Stands(row) /\ ~ActiveRow(row)
      BY <1>1, <2>1, <2>2, <2>3 DEF Stands, ActiveRow
    <2> QED BY <2>1, <2>2, <2>4, TicketBooked
  <1>3. CASE ExpireMerchandiseOrder(o)
    BY <1>3, UnpaidBooked DEF ExpireMerchandiseOrder
  <1> QED BY <1>2, <1>3 DEF ExpireOrder

\* A payment's new status on a ticket order: only "paid" can take places.
LEMMA TicketAppliedStands ==
    ASSUME NEW r \in OrderType, Stands(r), r.kind = "ticket", r.method # "bank_transfer",
           NEW st \in Applied, st = "pending" => r.status = "pending_payment"
    PROVE  LET s == TicketApplied([r EXCEPT !.pay = st], st) IN
             /\ s.kind = "ticket" /\ s.qty = r.qty /\ Stands(s)
             /\ ActiveRow(s) => ActiveRow(r) \/ st = "paid"
  <1> DEFINE s == TicketApplied([r EXCEPT !.pay = st], st)
  <1>1. /\ s.kind = "ticket" /\ s.qty = r.qty /\ s.left = r.left /\ s.method = r.method
        /\ s.pay = st
    BY DEF TicketApplied, OrderType
  <1>2. CASE st \in Failed \union Reversed
    <2>1. s.status \in {"expired", "cancelled", "refunded"}
      BY <1>2 DEF TicketApplied, OrderType, Failed, Reversed
    <2> HIDE DEF s
    <2>2. Stands(s) /\ ~ActiveRow(s)
      BY <1>1, <1>2, <2>1 DEF Stands, ActiveRow, Unsettled, Failed, Reversed
    <2> QED BY <1>1, <2>2 DEF s
  <1>3. CASE st = "paid"
    <2> HIDE DEF s
    <2>1. Stands(s)
      BY <1>1, <1>3 DEF Stands, Unsettled
    <2> QED BY <1>1, <1>3, <2>1 DEF s
  <1>4. CASE st \in {"pending", "review_required"}
    <2>1. s.status = r.status
      BY <1>4 DEF TicketApplied, OrderType, Failed, Reversed
    <2>2. s.released = r.released
      BY <1>4 DEF TicketApplied, OrderType, Failed, Reversed
    <2> HIDE DEF s
    <2>3. Stands(s)
      BY <1>1, <1>4, <2>1 DEF Stands, Unsettled
    <2>4. ActiveRow(s) => ActiveRow(r)
      BY <1>1, <2>1, <2>2 DEF ActiveRow
    <2> QED BY <1>1, <2>3, <2>4 DEF s
  <1> QED BY <1>2, <1>3, <1>4 DEF Applied

LEMMA ReleaseBooked ==
    ASSUME IInv, NEW o \in Orders, NEW r \in OrderType, r.kind = "merch",
           r.method # "bank_transfer", Holds(r) = Holds(ord[o]),
           NEW restore \in BOOLEAN, NEW status,
           ord' = [ord EXCEPT ![o] = ReleasedRow(r, status, restore)],
           stock' = StockAfter(r, restore)
    PROVE  Booked(o)
  <1> DEFINE row == ReleasedRow(r, status, restore)
  <1>1. /\ StockAfter(r, restore) + Holds(row) = stock + Holds(r)
        /\ row.kind = "merch" /\ row.method = r.method
    BY ReleaseBalances
  <1> HIDE DEF row
  <1>2. ord' = [ord EXCEPT ![o] = row]
    BY DEF row
  <1> QED BY <1>1, <1>2, MerchBooked

LEMMA MerchAppliedBooked ==
    ASSUME IInv, NEW o \in Orders, ord[o].kind = "merch",
           ord[o].method # "bank_transfer", NEW st \in Applied, Settle(o, st)
    PROVE  Booked(o)
  <1> DEFINE r == [ord[o] EXCEPT !.pay = st]
             row == MerchApplied(r, st)
             back == IF st \in Reversed THEN "refunded" ELSE "cancelled"
  <1>1. ord[o] \in OrderType /\ Row(ord[o]) /\ stock \in Int
    BY Types DEF IInv, Row
  <1>2. r \in OrderType /\ r.kind = ord[o].kind /\ r.method = ord[o].method /\ r.qty = ord[o].qty
    BY <1>1 DEF OrderType, Applied, PayType, TERMINAL_FAILURE_STATUSES
  <1>3. r.released = ord[o].released /\ r.unreturned = ord[o].unreturned
    BY <1>1 DEF OrderType
  <1>4. Holds(r) = Holds(ord[o])
    <2> HIDE DEF r
    <2> QED BY <1>2, <1>3 DEF Holds, HeldRow
  <1>5. /\ ord' = [ord EXCEPT ![o] = row]
        /\ stock' = IF r.kind = "merch" /\ st \in Failed \union Reversed
                    THEN StockAfter(r, r.status # "fulfilled") ELSE stock
    BY <1>2 DEF Settle
  <1> HIDE DEF r
  <1>6. CASE r.kind = "merch" /\ st \in Failed \union Reversed
    <2>1. CASE r.status # "fulfilled"
      <3>1. row = ReleasedRow(r, back, TRUE) /\ stock' = StockAfter(r, TRUE)
        BY <1>5, <1>6, <2>1 DEF MerchApplied, Failed, Reversed, ReleasedRow, StockAfter
      <3> HIDE DEF row, back
      <3> QED BY <1>2, <1>4, <1>5, <1>6, <3>1, ReleaseBooked
    <2>2. CASE r.status = "fulfilled"
      <3>1. row = ReleasedRow(r, back, FALSE) /\ stock' = StockAfter(r, FALSE)
        BY <1>5, <1>6, <2>2 DEF MerchApplied, Failed, Reversed, ReleasedRow, StockAfter
      <3> HIDE DEF row, back
      <3> QED BY <1>2, <1>4, <1>5, <1>6, <3>1, ReleaseBooked
    <2> QED BY <2>1, <2>2
  <1>7. CASE r.kind = "merch" /\ st \notin Failed \union Reversed
    <2>1. stock' = stock
      BY <1>5, <1>7
    <2>2. /\ row.kind = r.kind /\ row.method = r.method /\ row.qty = r.qty
          /\ row.released = r.released /\ row.unreturned = r.unreturned
      BY <1>2, <1>7 DEF MerchApplied, OrderType
    <2> HIDE DEF row
    <2>3. Holds(row) = Holds(r)
      BY <2>2 DEF Holds, HeldRow
    <2> QED BY <1>2, <1>4, <1>5, <2>1, <2>2, <2>3, MerchBooked
  <1> QED BY <1>2, <1>6, <1>7

LEMMA SettleBooked ==
    ASSUME IInv, PlacesInv, NEW o \in Orders,
           ord[o].method \notin {"bank_transfer", "none"}, NEW st \in Applied,
           ord[o].kind = "ticket" =>
             /\ st = "paid" => ActiveRow(ord[o]) \/ Spare(o, ord[o].qty)
             /\ st = "pending" => ord[o].status = "pending_payment",
           Settle(o, st)
    PROVE  Booked(o)
  <1>1. CASE ord[o].kind = "ticket"
    <2> DEFINE r == [ord[o] EXCEPT !.pay = st]
               s == TicketApplied(r, st)
    <2>1. ord[o] \in OrderType /\ Stands(ord[o])
      BY DEF IInv, Row, PlacesInv
    <2>2. r.kind = "ticket"
      BY <1>1, <2>1 DEF OrderType
    <2>3. ord' = [ord EXCEPT ![o] = s] /\ stock' = stock
      BY <2>2 DEF Settle
    <2>4. /\ s.kind = "ticket" /\ s.qty = ord[o].qty /\ Stands(s)
          /\ ActiveRow(s) => ActiveRow(ord[o]) \/ st = "paid"
      BY <1>1, <2>1, TicketAppliedStands
    <2> HIDE DEF s
    <2> QED BY <1>1, <2>3, <2>4, TicketBooked
  <1>2. CASE ord[o].kind # "ticket"
    <2>1. ord[o].kind = "merch"
      BY <1>2 DEF IInv, Row, PlacesInv, Stands, OrderType
    <2> QED BY <2>1, MerchAppliedBooked
  <1> QED BY <1>1, <1>2

\* The provider's "paid" finds the places still held, or the money goes to review.
LEMMA NotificationBooked ==
    ASSUME IInv, PlacesInv, NEW o \in Orders, NEW code \in Codes,
           ProcessPayHereNotification(o, code)
    PROVE  Booked(o)
  <1> DEFINE r == ord[o]
             st == ReportedStatus(r, code)
  <1>1. r \in OrderType /\ Stands(r)
    BY DEF IInv, Row, PlacesInv
  <1>2. r.method = "payhere" /\ st # r.pay /\ Settle(o, st)
    BY DEF ProcessPayHereNotification
  <1>3. code \in {"paid", "pending", "cancelled", "failed", "charged_back"}
    BY CommerceAssumption DEF CommerceAssumption
  <1>4. st \in Applied
    BY <1>2, <1>3 DEF ReportedStatus, Applied, Failed, Reversed
  <1>5. ASSUME r.kind = "ticket", st = "paid" PROVE ActiveRow(r)
    <2>1. /\ r.pay \notin TERMINAL_FAILURE_STATUSES /\ r.pay # "paid"
          /\ ~r.released /\ ~(r.status = "pending_payment" /\ r.left = 0)
      BY <1>2, <1>3, <1>5 DEF ReportedStatus, Deliverable
    <2>2. r.pay \in Unsettled
      BY <1>1, <1>5, <2>1 DEF Stands, OrderType, PayType, Unsettled
    <2>3. r.left \in Nat
      BY <1>1, <1>5 DEF Stands, OrderType
    <2> QED BY <1>1, <1>5, <2>1, <2>2, <2>3 DEF Stands, ActiveRow
  <1>6. ASSUME r.kind = "ticket", st = "pending" PROVE r.status = "pending_payment"
    <2>1. r.pay \notin TERMINAL_FAILURE_STATUSES \union {"paid"}
      BY <1>2, <1>3, <1>6 DEF ReportedStatus, TERMINAL_FAILURE_STATUSES
    <2>2. r.pay \in Unsettled
      BY <1>1, <1>6, <2>1 DEF Stands, OrderType, PayType, Unsettled
    <2> QED BY <1>1, <1>6, <2>2 DEF Stands
  <1> HIDE DEF st
  <1> QED BY <1>2, <1>4, <1>5, <1>6, SettleBooked

LEMMA ReconciliationBooked ==
    ASSUME IInv, PlacesInv, NEW o \in Orders,
           AcceptPayHerePayment(o) \/ RefundPayHerePayment(o) \/ ReconcileCash(o)
    PROVE  Booked(o)
  <1>1. {"paid", "refunded", "cancelled"} \subseteq Applied
    BY DEF Applied, Failed, Reversed
  <1>2. CASE AcceptPayHerePayment(o)
    <2>1. /\ ord[o].method \notin {"bank_transfer", "none"} /\ Settle(o, "paid")
          /\ ord[o].kind = "ticket" => Spare(o, ord[o].qty)
      BY <1>2 DEF AcceptPayHerePayment
    <2> QED BY <1>1, <2>1, SettleBooked
  <1>3. CASE RefundPayHerePayment(o)
    <2>1. ord[o].method \notin {"bank_transfer", "none"} /\ Settle(o, "refunded")
      BY <1>3 DEF RefundPayHerePayment
    <2> QED BY <1>1, <2>1, SettleBooked
  <1>4. CASE ReconcileCash(o)
    <2>1. /\ ord[o].method \notin {"bank_transfer", "none"} /\ ord[o].pay \in Unsettled
          /\ (~ord[o].released /\ ord[o].left > 0 /\ Settle(o, "paid")) \/ Settle(o, "cancelled")
      BY <1>4 DEF ReconcileCash
    <2>2. CASE ~ord[o].released /\ ord[o].left > 0 /\ Settle(o, "paid")
      <3>1. ord[o].kind = "ticket" => ActiveRow(ord[o])
        BY <2>1, <2>2 DEF PlacesInv, Stands, ActiveRow
      <3> QED BY <1>1, <2>1, <2>2, <3>1, SettleBooked
    <2>3. CASE Settle(o, "cancelled")
      BY <1>1, <2>1, <2>3, SettleBooked
    <2> QED BY <2>1, <2>2, <2>3
  <1> QED BY <1>2, <1>3, <1>4

\* A proof renews a window that has not closed.
LEMMA ProofBooked ==
    ASSUME IInv, PlacesInv, NEW o \in Orders, SubmitTicketProof(o)
    PROVE  Booked(o)
  <1> DEFINE r == ord[o]
             row == [r EXCEPT !.pay = "review_required", !.left = ReviewTime]
  <1>1. /\ r \in OrderType /\ ord \in [Orders -> OrderType] /\ Row(r) /\ Stands(r)
        /\ ReviewTime \in Nat
    BY Types, CommerceAssumption DEF IInv, PlacesInv, CommerceAssumption, Row
  <1>2. /\ r.method = "bank_transfer" /\ r.pay \in Unsettled \union {"review_required"}
        /\ r.left > 0 /\ ord' = [ord EXCEPT ![o] = row] /\ stock' = stock
    BY <1>1 DEF SubmitTicketProof
  <1>3. /\ row.kind = r.kind /\ row.status = r.status /\ row.qty = r.qty
        /\ row.pay = "review_required" /\ row.left = ReviewTime
    BY <1>1 DEF OrderType
  <1>4. row.released = r.released /\ row.unreturned = r.unreturned
    BY <1>1 DEF OrderType
  <1>5. ord'[o] = row /\ OthersKept(o)
    BY <1>2, Rewritten
  <1> HIDE DEF row
  <1>6. r.status = "pending_payment"
    <2>1. CASE r.kind = "ticket"
      BY <1>1, <1>2, <2>1 DEF Stands
    <2>2. CASE r.kind # "ticket"
      BY <1>1, <1>2, <2>2 DEF Row, Stands, OrderType
    <2> QED BY <2>1, <2>2
  <1>7. Stands(row) /\ (ActiveRow(row) => ActiveRow(r))
    BY <1>1, <1>2, <1>3, <1>4, <1>6 DEF Stands, ActiveRow, Unsettled, Never
  <1>8. Holds(row) = Holds(r)
    BY <1>3, <1>4 DEF Holds, HeldRow
  <1> QED BY <1>2, <1>3, <1>5, <1>7, <1>8 DEF Booked, Accounted

\* A review pays a proof whose window is still open.
LEMMA ReviewBooked ==
    ASSUME IInv, PlacesInv, NEW o \in Orders, ReviewTicketProof(o)
    PROVE  Booked(o)
  <1> DEFINE r == ord[o]
             Reviewed(pay, status, released, tk) ==
                [r EXCEPT !.pay = pay, !.status = status, !.released = released, !.ticket = tk]
             valid == IF r.ticket = "pending" THEN "valid" ELSE r.ticket
             void == IF r.ticket = "pending" THEN "cancelled" ELSE r.ticket
  <1>1. Row(r) /\ Stands(r) /\ r \in OrderType /\ ord \in [Orders -> OrderType]
    BY Types DEF IInv, PlacesInv
  <1>2. r.method = "bank_transfer" /\ r.pay = "review_required" /\ stock' = stock
    BY DEF ReviewTicketProof
  <1>3. r.kind = "ticket" /\ ~r.released /\ r.status = "pending_payment"
    BY <1>1, <1>2 DEF Row, Stands, OrderType
  <1>4. \/ /\ r.left > 0
           /\ ord' = [ord EXCEPT ![o] = Reviewed("paid", "paid", FALSE, valid)]
        \/ ord' = [ord EXCEPT ![o] = Reviewed("failed", "cancelled", TRUE, void)]
    BY <1>1 DEF ReviewTicketProof
  <1>5. ASSUME NEW pay, NEW status, NEW released, NEW tk,
               ord' = [ord EXCEPT ![o] = Reviewed(pay, status, released, tk)],
               \/ pay = "paid" /\ status = "paid" /\ r.left > 0
               \/ pay = "failed" /\ status = "cancelled"
        PROVE  Booked(o)
    <2> DEFINE row == Reviewed(pay, status, released, tk)
    <2>1. /\ row.kind = r.kind /\ row.status = status /\ row.method = r.method
          /\ row.pay = pay /\ row.left = r.left /\ row.qty = r.qty
      BY <1>1 DEF OrderType
    <2> HIDE DEF row
    <2>2. Stands(row)
      BY <1>1, <1>3, <1>5, <2>1 DEF Stands, Unsettled
    <2>3. ActiveRow(row) => ActiveRow(r)
      BY <1>3, <1>5, <2>1 DEF ActiveRow
    <2>4. ord' = [ord EXCEPT ![o] = row]
      BY <1>5 DEF row
    <2> QED BY <1>2, <1>3, <2>1, <2>2, <2>3, <2>4, TicketBooked
  <1> HIDE DEF valid, void
  <1> QED BY <1>4, <1>5

\* The gate and the staff's ticket changes leave places and stock alone.
LEMMA TicketStatusBooked ==
    ASSUME IInv, PlacesInv, NEW o \in Orders, ScanTicket(o) \/ UpdateTicketStatus(o)
    PROVE  Booked(o)
  <1> DEFINE r == ord[o]
  <1>1. r \in OrderType /\ Stands(r) /\ ord \in [Orders -> OrderType]
    BY Types DEF IInv, Row, PlacesInv
  <1>2. r.kind = "ticket" /\ stock' = stock
    BY DEF ScanTicket, UpdateTicketStatus, Done, IInv, DeskNamed
  <1>3. PICK tk, in : ord' = [ord EXCEPT ![o] = [r EXCEPT !.ticket = tk, !.checkedIn = in]]
    <2>1. CASE ScanTicket(o)
      BY <1>1, <2>1 DEF ScanTicket
    <2>2. CASE UpdateTicketStatus(o)
      <3>1. PICK tk \in {"cancelled", "valid"} : ord' = [ord EXCEPT ![o].ticket = tk]
        BY <2>2 DEF UpdateTicketStatus
      <3>2. [r EXCEPT !.ticket = tk] = [r EXCEPT !.ticket = tk, !.checkedIn = r.checkedIn]
        BY <1>1 DEF OrderType
      <3> QED BY <1>1, <3>1, <3>2
    <2> QED BY <2>1, <2>2
  <1> DEFINE row == [r EXCEPT !.ticket = tk, !.checkedIn = in]
  <1>4. /\ row.kind = r.kind /\ row.status = r.status /\ row.method = r.method
        /\ row.pay = r.pay /\ row.left = r.left /\ row.qty = r.qty
    BY <1>1 DEF OrderType
  <1>5. row.released = r.released
    BY <1>1 DEF OrderType
  <1>6. ord' = [ord EXCEPT ![o] = row]
    BY <1>3
  <1> HIDE DEF row
  <1>7. Stands(row) /\ (ActiveRow(row) => ActiveRow(r))
    BY <1>1, <1>4, <1>5 DEF Stands, ActiveRow
  <1> QED BY <1>2, <1>4, <1>6, <1>7, TicketBooked

LEMMA DeskBooked ==
    ASSUME IInv, PlacesInv, NEW o \in Orders, FulfilOrder(o) \/ CancelOrder(o)
    PROVE  Booked(o)
  <1> DEFINE r == ord[o]
             row == [r EXCEPT !.status = desk.task]
  <1>1. Row(r) /\ r \in OrderType /\ ord \in [Orders -> OrderType] /\ stock \in Int
    BY Types DEF IInv, Row
  <1>2. r.kind = "merch" /\ r.method = "payhere"
    BY <1>1 DEF FulfilOrder, CancelOrder, Done, IInv, DeskNamed, Row
  <1>3. CASE FulfilOrder(o)
    <2>1. ord' = [ord EXCEPT ![o] = row] /\ stock' = stock
      BY <1>1, <1>3 DEF FulfilOrder
    <2>2. row.kind = r.kind /\ row.method = r.method /\ row.qty = r.qty
      BY <1>1 DEF OrderType
    <2>3. row.released = r.released /\ row.unreturned = r.unreturned
      BY <1>1 DEF OrderType
    <2> HIDE DEF row
    <2>4. Holds(row) = Holds(r)
      BY <2>2, <2>3 DEF Holds, HeldRow
    <2> QED BY <1>2, <2>1, <2>2, <2>4, MerchBooked
  <1>4. CASE CancelOrder(o)
    BY <1>2, <1>4, UnpaidBooked DEF CancelOrder
  <1> QED BY <1>3, <1>4

\* Time closes windows and nothing else.
LEMMA TickBooked ==
    ASSUME IInv, IInv', PlacesInv, Tick
    PROVE  PlacesInv' /\ Balanced
  <1>1. /\ ord \in [Orders -> OrderType] /\ ord' \in [Orders -> OrderType]
        /\ ev' = ev /\ stock' = stock /\ stock \in Int
    BY Types DEF IInv, TypeOK, OrderType, PayType, StatusType, TicketType, Tick
  <1>2. ASSUME NEW o \in Orders
        PROVE  /\ ord'[o].qty = ord[o].qty
               /\ Stands(ord'[o])
               /\ ActiveRow(ord'[o]) => ActiveRow(ord[o])
               /\ HeldRow(ord'[o]) <=> HeldRow(ord[o])
    <2> DEFINE r == ord[o]
               left == IF r.left > 0 THEN r.left - 1 ELSE r.left
               s == [r EXCEPT !.left = left]
    <2>1. r \in OrderType /\ Stands(r)
      BY <1>1 DEF PlacesInv
    <2>2. ord'[o] = s
      BY DEF Tick
    <2>3. /\ s.kind = r.kind /\ s.status = r.status /\ s.method = r.method
          /\ s.pay = r.pay /\ s.qty = r.qty /\ s.left = left
      BY <2>1 DEF OrderType
    <2>4. s.released = r.released /\ s.unreturned = r.unreturned
      BY <2>1 DEF OrderType
    <2>5. /\ left > 0 => r.left > 0
          /\ r.left # Never => left # Never
      BY <2>1 DEF OrderType, Never
    <2> HIDE DEF s, left
    <2>6. Stands(s) /\ (ActiveRow(s) => ActiveRow(r)) /\ (HeldRow(s) <=> HeldRow(r))
      BY <2>1, <2>3, <2>4, <2>5 DEF Stands, ActiveRow, HeldRow
    <2> QED BY <2>2, <2>3, <2>6
  <1> DEFINE A == {p \in Orders : ActiveRow(ord[p])}
             B == {p \in Orders : ActiveRow(ord'[p])}
  <1>3. Reserved(Orders) = Total(ord, A) /\ Reserved(Orders)' = Total(ord', B)
    <2>1. {p \in Orders : ActiveOrder(p)} = A /\ {p \in Orders : ActiveOrder(p)'} = B
      BY DEF ActiveOrder, ActiveRow
    <2> HIDE DEF A, B
    <2> QED BY <2>1 DEF Reserved, Units, Total, Counted
  <1>4. A \in SUBSET Orders /\ B \in SUBSET A /\ \A p \in B : ord'[p].qty = ord[p].qty
    BY <1>2
  <1> HIDE DEF A, B
  <1>5. Total(ord', B) = Total(ord, B)
    BY <1>4, TotalKept
  <1>6. Total(ord, B) <= Total(ord, A)
    BY <1>4, TotalGrows
  <1>7. /\ Total(ord, A) \in Nat /\ Total(ord, B) \in Nat
        /\ ev.capacity \in Nat /\ Total(ord, A) <= ev.capacity
    <2>1. Total(ord, A) \in Nat /\ Total(ord, B) \in Nat
      BY <1>4, CountedFinite
    <2> QED BY <1>3, <2>1, Types, CommerceAssumption DEF PlacesInv, NeverOversold, CommerceAssumption
  <1>8. NeverOversold'
    BY <1>1, <1>3, <1>5, <1>6, <1>7 DEF NeverOversold
  <1>9. Units(Held)' = Units(Held)
    <2> DEFINE C == {p \in Orders : HeldRow(ord[p])}
    <2>1. Held = C /\ Held' = C
      BY <1>2 DEF Held, HeldRow
    <2>2. \A p \in C : ord'[p].qty = ord[p].qty
      BY <1>2
    <2> HIDE DEF C
    <2>3. Total(ord', C) = Total(ord, C)
      BY <2>2, TotalKept
    <2> QED BY <2>1, <2>3 DEF Units, Total, Counted
  <1> QED BY <1>1, <1>2, <1>8, <1>9 DEF PlacesInv, Balanced

LEMMA RestBooked ==
    ASSUME IInv, PlacesInv,
           \/ UNCHANGED vars \/ SaveAdminEvent \/ OpenProductForm \/ SaveAdminProduct
           \/ \E o \in Orders : DeskReads(o)
    PROVE  PlacesInv' /\ (SaveAdminProduct \/ Balanced)
  <1>1. ord' = ord
    BY DEF SaveAdminEvent, OpenProductForm, SaveAdminProduct, DeskReads, vars
  <1>2. SaveAdminProduct \/ stock' = stock
    BY DEF SaveAdminEvent, OpenProductForm, SaveAdminProduct, DeskReads, vars
  <1>3. /\ Reserved(Orders)' = Reserved(Orders) /\ Units(Held)' = Units(Held)
    BY <1>1 DEF Reserved, Units, ActiveOrder, Held
  <1>4. NeverOversold'
    <2>1. CASE SaveAdminEvent
      <3>1. PICK c \in Capacities : c >= Reserved(Orders) /\ ev'.capacity = c
        BY <2>1 DEF SaveAdminEvent
      <3> QED BY <1>3, <3>1 DEF NeverOversold
    <2>2. CASE ev' = ev
      BY <1>3, <2>2 DEF NeverOversold, PlacesInv
    <2> QED BY <2>1, <2>2 DEF OpenProductForm, SaveAdminProduct, DeskReads, vars
  <1> QED BY <1>1, <1>2, <1>3, <1>4 DEF PlacesInv, Balanced

LEMMA StepBooks ==
    ASSUME IInv, PlacesInv, [Next]_vars
    PROVE  PlacesInv' /\ (SaveAdminProduct \/ Balanced)
  <1>1. IInv'
    BY StepKeeps
  <1>2. ASSUME NEW o \in Orders,
               \/ CreateTicketOrder(o) \/ CreateMerchandiseOrder(o) \/ ExpireOrder(o)
               \/ Settlement(o) \/ ScanTicket(o) \/ UpdateTicketStatus(o)
               \/ FulfilOrder(o) \/ CancelOrder(o)
        PROVE  PlacesInv' /\ Balanced
    <2>1. ev' = ev
      BY <1>2 DEF CreateTicketOrder, CreateMerchandiseOrder, ExpireOrder, Settlement,
           ProcessPayHereNotification, AcceptPayHerePayment, RefundPayHerePayment,
           ReconcileCash, SubmitTicketProof, ReviewTicketProof, Settle, ScanTicket,
           UpdateTicketStatus, FulfilOrder, CancelOrder, Done
    <2>2. CASE Settlement(o)
      BY <2>2, NotificationBooked, ReconciliationBooked, ProofBooked, ReviewBooked,
         <1>1, <2>1, BookedKeeps DEF Settlement
    <2>3. CASE ~Settlement(o)
      <3>1. Booked(o)
        BY <1>2, <2>3, TicketOrderBooked, MerchandiseOrderBooked, ExpireBooked,
           TicketStatusBooked, DeskBooked
      <3> QED BY <1>1, <2>1, <3>1, BookedKeeps
    <2> QED BY <2>2, <2>3
  <1>3. CASE Tick
    BY <1>1, <1>3, TickBooked
  <1>4. CASE UNCHANGED vars
    BY <1>4, RestBooked
  <1>5. CASE Next
    BY <1>2, <1>3, <1>5, RestBooked DEF Next
  <1> QED BY <1>4, <1>5

LEMMA InitPlaces == Init => PlacesInv
  <1> SUFFICES ASSUME Init PROVE PlacesInv
    OBVIOUS
  <1>1. \A o \in Orders : Stands(ord[o]) /\ ~ActiveOrder(o)
    BY BlankTyped DEF Init, Stands, ActiveOrder, Unsettled
  <1>2. {o \in Orders : ActiveOrder(o)} = {}
    BY <1>1
  <1>3. Reserved(Orders) = 0
    <2>1. {u \in {} \X (1..MaxQuantity) : u[2] <= ord[u[1]].qty} = {}
      OBVIOUS
    <2> QED BY <1>2, <2>1, FS_EmptySet DEF Reserved, Units
  <1>4. ev.capacity \in Nat
    BY CommerceAssumption DEF Init, CommerceAssumption
  <1> QED BY <1>1, <1>3, <1>4 DEF PlacesInv, NeverOversold

LEMMA PlacesInductive == Spec => [](IInv /\ PlacesInv)
  <1>1. Init => IInv /\ PlacesInv
    BY InitIInv, InitPlaces
  <1>2. IInv /\ PlacesInv /\ [Next]_vars => (IInv /\ PlacesInv)'
    BY StepKeeps, StepBooks
  <1> QED BY <1>1, <1>2, PTL DEF Spec

-----------------------------------------------------------------------------
(* What every behaviour has.                                               *)

LEMMA Inductive == Spec => [](IInv /\ TypeOK)
  <1>1. Init => IInv
    BY InitIInv
  <1>2. IInv /\ [Next]_vars => IInv'
    BY StepKeeps
  <1>3. IInv => TypeOK
    BY DEF IInv
  <1> QED BY <1>1, <1>2, <1>3, PTL DEF Spec

\* Every row, the event, the stock and the staff desk keep their types, whatever
\* order requests, reports and the clock come in.
THEOREM TypesHold == Spec => []TypeOK
  BY Inductive, PTL

\* Money counted as received for a ticket order stands for a paid order, and a
\* paid order for money received or under review: for any number of orders and
\* any reports of the provider.
THEOREM MoneyHolds == Spec => []TicketMoneyMatchesOrder
  <1>1. IInv => TicketMoneyMatchesOrder
    BY DEF IInv, Row, MoneyMatches, TicketMoneyMatchesOrder
  <1> QED BY <1>1, Inductive, PTL

\* A ticket that was let in once is never let in again, around any scan, cancel
\* and restore.
THEOREM OneAdmission == Spec => AdmittedOnce
  <1>1. IInv /\ [Next]_vars =>
          [\A o \in Orders : ord'[o].ticket = "checked_in" /\ ord[o].ticket # "checked_in"
              => ~ord[o].checkedIn]_vars
    BY StepKeeps DEF StepKept, Follows
  <1> QED BY <1>1, Inductive, PTL DEF Spec, AdmittedOnce

\* Places and stock that were given back are never taken again by the order that
\* gave them back: no late payment, review or reconciliation revives it.
THEOREM NothingRevived == Spec => ReleasedStaysReleased
  <1>1. IInv /\ [Next]_vars =>
          [\A o \in Orders : ord[o].released => ord'[o].released]_vars
    BY StepKeeps DEF StepKept, Follows
  <1> QED BY <1>1, Inductive, PTL DEF Spec, ReleasedStaysReleased

\* The places of paid orders and of orders that still wait for their money never
\* pass the event's capacity: whatever the quantities, and however creation,
\* expiry, late money, reviews and changes of the capacity are ordered.
THEOREM PlacesSuffice == Spec => []NeverOversold
  <1>1. IInv /\ PlacesInv => NeverOversold
    BY DEF PlacesInv
  <1> QED BY <1>1, PlacesInductive, PTL

\* Stock goes out and comes back with the orders that hold it, by their whole
\* quantity and once each, in every step but a save of the product form.
THEOREM StockBalanced == Spec => StockMovesWithHolds
  <1>1. IInv /\ PlacesInv /\ [Next]_vars =>
          [SaveAdminProduct \/ stock' + Units(Held)' = stock + Units(Held)]_vars
    BY StepBooks DEF Balanced
  <1> QED BY <1>1, PlacesInductive, PTL DEF Spec, StockMovesWithHolds

-----------------------------------------------------------------------------
(* What the shop has sold.                                                 *)

\* The stock, and a product form, which remembers a stock.
StockInv == stock >= 0 /\ desk.form >= 0

LEMMA StockComesBack ==
    ASSUME IInv, StockInv, NEW r, r.qty \in Nat, NEW restore
    PROVE  StockAfter(r, restore) >= 0
  BY Types DEF StockAfter, StockInv

LEMMA StockStep ==
    ASSUME IInv, StockInv, [Next]_vars
    PROVE  StockInv'
  <1>0. /\ stock \in Int /\ desk.form \in Int /\ stock >= 0 /\ desk.form >= 0
        /\ Idle.form = 0
    BY Types DEF DeskType, StockInv, Idle
  <1>q. \A o \in Orders : ord[o].qty \in Nat /\ ord[o] \in OrderType
    BY Types, CommerceAssumption DEF OrderType
  <1>1. CASE OpenProductForm \/ SaveAdminProduct
    <2>1. CASE OpenProductForm
      <3>1. desk'.form = stock /\ stock' = stock
        BY <2>1 DEF OpenProductForm, Idle
      <3> QED BY <1>0, <3>1 DEF StockInv
    <2>2. CASE SaveAdminProduct
      <3>1. stock' = desk.form /\ desk'.form = 0
        BY <1>0, <2>2 DEF SaveAdminProduct
      <3> QED BY <1>0, <3>1 DEF StockInv
    <2> QED BY <1>1, <2>1, <2>2
  <1>2. ASSUME NEW o \in Orders, DeskReads(o) PROVE StockInv'
    <2>1. PICK task \in DeskTasks : desk' = [Idle EXCEPT !.task = task, !.o = o]
      BY <1>2 DEF DeskReads
    <2>2. desk'.form = 0 /\ stock' = stock
      BY <1>2, <2>1 DEF DeskReads, Idle
    <2> QED BY <1>0, <2>2 DEF StockInv
  <1>3. ASSUME NEW o \in Orders, UpdateTicketStatus(o) \/ FulfilOrder(o) PROVE StockInv'
    BY <1>0, <1>3 DEF UpdateTicketStatus, FulfilOrder, Done, StockInv
  <1>4. ASSUME NEW o \in Orders, CancelOrder(o) \/ ExpireOrder(o) PROVE StockInv'
    <2>1. StockAfter(ord[o], TRUE) >= 0
      BY <1>q, <1>4, StockComesBack
    <2>2. stock' = stock \/ stock' = StockAfter(ord[o], TRUE)
      <3>1. CASE CancelOrder(o)
        BY <3>1 DEF CancelOrder
      <3>2. CASE ExpireOrder(o)
        BY <3>2 DEF ExpireOrder, ExpireTicketOrder, ExpireMerchandiseOrder
      <3> QED BY <1>4, <3>1, <3>2
    <2>3. desk'.form = desk.form \/ desk'.form = 0
      <3>1. desk' = desk \/ desk' = Idle
        BY <1>4 DEF CancelOrder, ExpireOrder, Done
      <3> QED BY <1>0, <3>1
    <2>4. stock' >= 0
      BY <1>0, <2>1, <2>2
    <2> QED BY <1>0, <2>3, <2>4 DEF StockInv
  <1>5. ASSUME NEW o \in Orders, CreateMerchandiseOrder(o) PROVE StockInv'
    <2>1. PICK q \in 1..MaxQuantity : stock >= q /\ stock' = stock - q /\ desk' = desk
      BY <1>5 DEF CreateMerchandiseOrder
    <2>2. q \in Int
      BY CommerceAssumption DEF CommerceAssumption
    <2> QED BY <1>0, <2>1, <2>2 DEF StockInv
  <1>6. ASSUME NEW o \in Orders, NEW st, Settle(o, st) PROVE StockInv'
    <2> DEFINE r == [ord[o] EXCEPT !.pay = st]
    <2>1. r.qty \in Nat
      BY <1>q DEF OrderType
    <2>2. stock' = stock \/ stock' = StockAfter(r, r.status # "fulfilled")
      BY <1>6 DEF Settle
    <2>3. desk' = desk
      BY <1>6 DEF Settle
    <2> HIDE DEF r
    <2>4. StockAfter(r, r.status # "fulfilled") >= 0
      BY <2>1, StockComesBack
    <2> QED BY <1>0, <2>2, <2>3, <2>4 DEF StockInv
  <1>7. ASSUME NEW o \in Orders, Settlement(o) PROVE StockInv'
    <2>1. CASE SubmitTicketProof(o) \/ ReviewTicketProof(o)
      BY <1>0, <2>1 DEF SubmitTicketProof, ReviewTicketProof, StockInv
    <2>2. CASE \/ \E code \in Codes : ProcessPayHereNotification(o, code)
               \/ AcceptPayHerePayment(o) \/ RefundPayHerePayment(o) \/ ReconcileCash(o)
      BY <1>6, <2>2 DEF ProcessPayHereNotification, AcceptPayHerePayment,
                        RefundPayHerePayment, ReconcileCash
    <2> QED BY <1>7, <2>1, <2>2 DEF Settlement
  <1>8. ASSUME \/ SaveAdminEvent \/ Tick \/ UNCHANGED vars
               \/ \E o \in Orders : CreateTicketOrder(o) \/ ScanTicket(o)
        PROVE  StockInv'
    BY <1>0, <1>8 DEF SaveAdminEvent, Tick, vars, CreateTicketOrder, ScanTicket, StockInv
  <1> QED BY <1>1, <1>2, <1>3, <1>4, <1>5, <1>7, <1>8 DEF Next

LEMMA StockInductive == Spec => []StockInv
  <1>1. Init => StockInv
    BY CommerceAssumption DEF Init, StockInv, Idle, CommerceAssumption
  <1>2. IInv /\ StockInv /\ [Next]_vars => StockInv'
    BY StockStep
  <1> QED BY <1>1, <1>2, Inductive, PTL DEF Spec

\* The stock of a product never becomes negative, whichever orders race for the
\* last unit and whatever a product form that was loaded earlier writes over it.
THEOREM StockNeverNegative == Spec => [](stock >= 0)
  <1>1. StockInv => stock >= 0
    BY DEF StockInv
  <1> QED BY <1>1, StockInductive, PTL

Accounts == stock + Units(Held) = Stock

NoMoreThanStock == Units(Held) <= Stock

\* As long as no product form is saved, the orders that hold stock, or were
\* fulfilled and keep it, never have more units between them than there were.
THEOREM NoMoreSoldThanStock ==
    Spec /\ [][~SaveAdminProduct]_vars => [](Accounts /\ NoMoreThanStock)
  <1>1. Init => Accounts
    <2> SUFFICES ASSUME Init PROVE Units(Held) = 0 /\ stock = Stock /\ Stock \in Nat
      BY DEF Accounts
    <2>1. Held = {}
      BY DEF Init, Held, Blank
    <2>2. {u \in {} \X (1..MaxQuantity) : u[2] <= ord[u[1]].qty} = {}
      OBVIOUS
    <2>3. Units(Held) = 0
      BY <2>1, <2>2, FS_EmptySet DEF Units
    <2> QED BY <2>3, CommerceAssumption DEF Init
  <1>2. /\ Accounts /\ [~SaveAdminProduct]_vars
        /\ [SaveAdminProduct \/ stock' + Units(Held)' = stock + Units(Held)]_vars
        => Accounts'
    <2>1. UNCHANGED vars => stock' = stock /\ Units(Held)' = Units(Held)
      BY DEF vars, Units, Held
    <2> QED BY <2>1 DEF Accounts
  <1>3. IInv /\ StockInv /\ Accounts => Accounts /\ NoMoreThanStock
    <2> SUFFICES ASSUME IInv, StockInv, Accounts PROVE Units(Held) <= Stock
      BY DEF NoMoreThanStock
    <2>1. Held \in SUBSET Orders
      BY DEF Held
    <2>2. Total(ord, Held) \in Nat
      BY <2>1, CountedFinite
    <2>3. Units(Held) \in Nat
      BY <2>2 DEF Units, Total, Counted
    <2> QED BY <2>3, Types, CommerceAssumption DEF Accounts, StockInv
  <1> QED BY <1>1, <1>2, <1>3, StockBalanced, StockInductive, Inductive, PTL
          DEF Spec, StockMovesWithHolds

=============================================================================
