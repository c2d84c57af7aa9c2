------------------------ MODULE OrderFulfillmentProofs ------------------------
(***************************************************************************)
(* Theorems about OrderFulfillment for every number of orders, stocks,     *)
(* fulfillments and units.                                                 *)
(*                                                                         *)
(* The tables and the counters of the stocks are right whatever the        *)
(* workers do.  What the order says of itself (quantity_fulfilled, its     *)
(* status, the units it holds) needs requests that follow one another: a   *)
(* request works on what it read before it had a lock.                     *)
(***************************************************************************)
EXTENDS OrderFulfillment, WarehouseProofs

OrderStatus ==
  {"DRAFT", "UNCONFIRMED", "UNFULFILLED", "PARTIALLY_FULFILLED", "FULFILLED", "CANCELED", "EXPIRED"}
FulfillmentRow ==
  [status : {"WAITING", "FULFILLED", "CANCELED"}, line : Lines, quantity : 1 .. MaxNeed,
   warehouse : Warehouses \cup {NoWarehouse}]

(* What a worker can have in memory.                                        *)
RequestOK(r) ==
  \/ r = Idle
  \/ /\ r.op = "complete" /\ r.order \in Orders
     /\ r.quantities \in [OrderLines(r.order) -> 1 .. MaxNeed]
  \/ r.op = "edit" /\ r.line \in Lines /\ r.old \in 1 .. MaxNeed /\ r.new \in 1 .. MaxNeed
  \/ r.op = "confirm" /\ r.order \in Orders
  \/ /\ r.op = "fulfill" /\ r.line \in Lines /\ r.quantity \in 1 .. MaxNeed
     /\ r.warehouse \in Warehouses /\ r.exceed \in BOOLEAN /\ r.seen \in Int
  \/ /\ r.op = "approve" /\ r.target \in Fulfillments /\ fulfillment[r.target] \in FulfillmentRow
     /\ r.exceed \in BOOLEAN
  \/ /\ r.op = "cancel" /\ r.target \in Fulfillments /\ fulfillment[r.target] \in FulfillmentRow
     /\ r.warehouse \in Warehouses \cup {NoWarehouse}
  \/ r.op = "cancel_order" /\ r.order \in Orders /\ r.status \in {"CANCELED", "EXPIRED"}

RequestsOK ==
  /\ request \in [Workers -> {request[w] : w \in Workers}]
  /\ \A w \in Workers : RequestOK(request[w])

OrdersTyped ==
  /\ status \in [Orders -> OrderStatus]
  /\ ordered \in [Lines -> 1 .. MaxNeed] /\ fulfilled \in [Lines -> Int]
  /\ fulfillment \in [Fulfillments -> FulfillmentRow \cup {NotCreated}]

OrderInv == TypeOK /\ OrdersTyped /\ RequestsOK

-----------------------------------------------------------------------------
LEMMA OrderSets ==
  /\ \A l \in Lines : LineOrder[l] \in Orders /\ OrderLines(LineOrder[l]) = {l}
  /\ \A o \in Orders : \E l \in Lines : LineOrder[l] = o /\ OrderLines(o) = {l}
  /\ \A o : OrderLines(o) \in SUBSET Lines
BY OneLineOrders DEF Orders, OrdersOf, OrderLines

(* A row of the table that is not canceled, or is, was created.             *)
LEMMA CreatedRow ==
  ASSUME OrdersTyped, NEW f \in Fulfillments
  PROVE  /\ fulfillment[f] \in FulfillmentRow <=> fulfillment[f] # NotCreated
         /\ fulfillment[f].status \in {"WAITING", "FULFILLED", "CANCELED"} =>
              fulfillment[f] \in FulfillmentRow
BY DEF OrdersTyped, FulfillmentRow, NotCreated

LEMMA RequestContents ==
  ASSUME NEW r, RequestOK(r)
  PROVE  /\ r.op = "complete" => /\ r.order \in Orders
                                 /\ r.quantities \in [OrderLines(r.order) -> 1 .. MaxNeed]
         /\ r.op = "edit" => r.line \in Lines /\ r.old \in 1 .. MaxNeed /\ r.new \in 1 .. MaxNeed
         /\ r.op = "confirm" => r.order \in Orders
         /\ r.op = "fulfill" => /\ r.line \in Lines /\ r.quantity \in 1 .. MaxNeed
                                /\ r.warehouse \in Warehouses /\ r.exceed \in BOOLEAN /\ r.seen \in Int
         /\ r.op = "approve" => /\ r.target \in Fulfillments /\ fulfillment[r.target] \in FulfillmentRow
                                /\ r.exceed \in BOOLEAN
         /\ r.op = "cancel" => /\ r.target \in Fulfillments /\ fulfillment[r.target] \in FulfillmentRow
                               /\ r.warehouse \in Warehouses \cup {NoWarehouse}
         /\ r.op = "cancel_order" => r.order \in Orders /\ r.status \in {"CANCELED", "EXPIRED"}
BY DEF RequestOK, Idle

(* The fulfillments that exist remain, so requests about them stay typed.   *)
FulfillmentsStay ==
  \A f \in Fulfillments : fulfillment[f] \in FulfillmentRow => fulfillment'[f] \in FulfillmentRow

LEMMA RequestsStay ==
  ASSUME RequestsOK, FulfillmentsStay, NEW w \in Workers, Finish(w)
  PROVE  RequestsOK'
<1>1. \A v \in Workers : request'[v] = IF v = w THEN Idle ELSE request[v]
  BY DEF RequestsOK, Finish
<1>2. \A v \in Workers : RequestOK(request[v])'
  <2> SUFFICES ASSUME NEW v \in Workers PROVE RequestOK(request[v])'
    OBVIOUS
  <2>1. CASE v = w
    BY <1>1, <2>1 DEF RequestOK
  <2>2. CASE v # w
    <3>1. RequestOK(request[v]) /\ request'[v] = request[v]
      BY <1>1, <2>2 DEF RequestsOK
    <3> QED BY <3>1 DEF RequestOK, FulfillmentsStay
  <2> QED BY <2>1, <2>2
<1>3. request' \in [Workers -> {request'[v] : v \in Workers}]
  BY DEF RequestsOK, Finish
<1> QED BY <1>2, <1>3 DEF RequestsOK

LEMMA TypesStay ==
  ASSUME TypeOK, UNCHANGED vars
  PROVE  TypeOK'
BY DEF TypeOK, vars, stockVars, taskVars

LEMMA StatusType ==
  ASSUME OrdersTyped, NEW o \in Orders, update_order_status(o)
  PROVE  status' \in [Orders -> OrderStatus]
<1>1. determine_order_status(o, fulfilled', fulfillment') \in OrderStatus
  BY DEF determine_order_status, OrdersTyped, OrderStatus
<1> QED BY <1>1 DEF update_order_status, OrdersTyped

LEMMA InitOrders == Init => OrderInv
<1> SUFFICES ASSUME Init PROVE OrderInv
  OBVIOUS
<1>1. TypeOK
  BY InitTypes DEF Init
<1>2. OrdersTyped
  BY DEF Init, OrdersTyped, OrderStatus
<1>3. RequestsOK
  BY DEF Init, RequestsOK, RequestOK
<1> QED BY <1>1, <1>2, <1>3 DEF OrderInv

LEMMA ValidateKeeps ==
  ASSUME OrderInv, NEW w \in Workers, NEW r, RequestOK(r), Validate(w, r)
  PROVE  OrderInv'
<1>1. TypeOK' /\ OrdersTyped'
  BY TypesStay DEF OrderInv, Validate, OrdersTyped, orderVars
<1>2. \A v \in Workers : request'[v] = IF v = w THEN r ELSE request[v]
  BY DEF OrderInv, RequestsOK, Validate
<1>3. \A v \in Workers : RequestOK(request'[v])
  BY <1>2 DEF OrderInv, RequestsOK
<1>4. \A v \in Workers : RequestOK(request[v])'
  BY <1>3 DEF RequestOK, Validate, orderVars
<1>5. request' \in [Workers -> {request'[v] : v \in Workers}]
  BY DEF OrderInv, RequestsOK, Validate
<1> QED BY <1>1, <1>4, <1>5 DEF OrderInv, RequestsOK

LEMMA ValidateRequestKeeps ==
  ASSUME OrderInv, NEW w \in Workers, ValidateRequest(w)
  PROVE  OrderInv'
<1>o. OrdersTyped
  BY DEF OrderInv
<1>1. ASSUME NEW o \in Orders, draft_order_complete_validate(w, o) PROVE OrderInv'
  <2>1. PICK r : r = [op |-> "complete", order |-> o, quantities |-> [l \in OrderLines(o) |-> ordered[l]]]
    OBVIOUS
  <2>2. RequestOK(r)
    BY <1>o, <2>1, OrderSets DEF RequestOK, OrdersTyped
  <2> QED BY <1>1, <2>1, <2>2, ValidateKeeps DEF draft_order_complete_validate
<1>2. ASSUME NEW o \in Orders, order_confirm_get_instance(w, o) PROVE OrderInv'
  <2>1. PICK r : r = [op |-> "confirm", order |-> o]
    OBVIOUS
  <2>2. RequestOK(r)
    BY <2>1 DEF RequestOK
  <2> QED BY <1>2, <2>1, <2>2, ValidateKeeps DEF order_confirm_get_instance
<1>3. ASSUME NEW l \in Lines, NEW q \in 1 .. MaxNeed, order_line_update_clean_input(w, l, q)
      PROVE  OrderInv'
  <2>1. PICK r : r = [op |-> "edit", line |-> l, old |-> ordered[l], new |-> q,
                      allocate |-> status[LineOrder[l]] = "UNCONFIRMED"]
    OBVIOUS
  <2>2. RequestOK(r)
    BY <1>o, <2>1 DEF RequestOK, OrdersTyped
  <2> QED BY <1>3, <2>1, <2>2, ValidateKeeps DEF order_line_update_clean_input
<1>4. ASSUME NEW l \in Lines, NEW q \in 1 .. MaxNeed, NEW warehouse \in Warehouses, NEW exceed \in BOOLEAN,
             order_fulfill_clean_input(w, l, q, warehouse, exceed)
      PROVE  OrderInv'
  <2>1. PICK r : r = [op |-> "fulfill", line |-> l, quantity |-> q, warehouse |-> warehouse,
                      exceed |-> exceed, seen |-> fulfilled[l]]
    OBVIOUS
  <2>2. RequestOK(r)
    BY <1>o, <2>1 DEF RequestOK, OrdersTyped
  <2> QED BY <1>4, <2>1, <2>2, ValidateKeeps DEF order_fulfill_clean_input
<1>5. ASSUME NEW f \in Fulfillments, NEW exceed \in BOOLEAN, fulfillment_approve_clean_input(w, f, exceed)
      PROVE  OrderInv'
  <2>1. PICK r : r = [op |-> "approve", target |-> f, exceed |-> exceed]
    OBVIOUS
  <2>2. RequestOK(r)
    BY <1>5, <1>o, <2>1, CreatedRow DEF RequestOK, fulfillment_approve_clean_input
  <2> QED BY <1>5, <2>1, <2>2, ValidateKeeps DEF fulfillment_approve_clean_input
<1>6. ASSUME NEW f \in Fulfillments, NEW warehouse \in Warehouses, fulfillment_cancel_validate(w, f, warehouse)
      PROVE  OrderInv'
  <2>1. PICK r : r = [op |-> "cancel", target |-> f, warehouse |->
                        IF fulfillment[f].status = "WAITING" THEN NoWarehouse ELSE warehouse]
    OBVIOUS
  <2>2. RequestOK(r)
    BY <1>6, <1>o, <2>1, CreatedRow DEF RequestOK, fulfillment_cancel_validate
  <2> QED BY <1>6, <2>1, <2>2, ValidateKeeps DEF fulfillment_cancel_validate
<1>7. ASSUME NEW o \in Orders, order_cancel_clean(w, o) PROVE OrderInv'
  <2>1. PICK r : r = [op |-> "cancel_order", order |-> o, status |-> "CANCELED"]
    OBVIOUS
  <2>2. RequestOK(r)
    BY <2>1 DEF RequestOK
  <2> QED BY <1>7, <2>1, <2>2, ValidateKeeps DEF order_cancel_clean
<1>8. ASSUME NEW o \in Orders, expire_orders_read(w, o) PROVE OrderInv'
  <2>1. PICK r : r = [op |-> "cancel_order", order |-> o, status |-> "EXPIRED"]
    OBVIOUS
  <2>2. RequestOK(r)
    BY <2>1 DEF RequestOK
  <2> QED BY <1>8, <2>1, <2>2, ValidateKeeps DEF expire_orders_read
<1> QED BY <1>1, <1>2, <1>3, <1>4, <1>5, <1>6, <1>7, <1>8 DEF ValidateRequest

-----------------------------------------------------------------------------
(* What a request does to the stock tables: one operation of Warehouse for  *)
(* the one line of its order.                                               *)
StockMove(l, q) ==
  LET one == [m \in {l} |-> q]
  IN \/ create_order({l}, one, FALSE, ReservationsEnabled)
     \/ increase_allocations({l}, one)
     \/ decrease_allocations({l}, one)
     \/ \E W \in [{l} -> Warehouses \cup {NoWarehouse}], exceed \in BOOLEAN :
          decrease_stock({l}, one, W, Lines, exceed)
     \/ \E w \in Warehouses : increase_stock(l, w, q)
     \/ deallocate_stock_for_orders({l})

Moves == UNCHANGED vars \/ \E l \in Lines, q \in 1 .. MaxNeed : StockMove(l, q)

LEMMA CommitMoves ==
  ASSUME OrderInv, NEW w \in Workers, CommitRequest(w)
  PROVE  Moves
<1>1. PICK r : r = request[w]
  OBVIOUS
<1>2. RequestOK(r)
  BY <1>1 DEF OrderInv, RequestsOK
<1>n. MaxNeed \in Nat
  BY BoundAssumption
<1>3. CASE draft_order_complete(w)
  <2>1. r.op = "complete" /\ create_order(OrderLines(r.order), r.quantities, FALSE, ReservationsEnabled)
    BY <1>1, <1>3 DEF draft_order_complete
  <2>2. r.order \in Orders /\ r.quantities \in [OrderLines(r.order) -> 1 .. MaxNeed]
    BY <1>2, <2>1, RequestContents
  <2>3. PICK l \in Lines : OrderLines(r.order) = {l}
    BY <2>2, OrderSets
  <2>4. PICK q \in 1 .. MaxNeed : q = r.quantities[l]
    BY <2>2, <2>3
  <2>5. r.quantities = [m \in {l} |-> q]
    BY <2>2, <2>3, <2>4
  <2> QED BY <2>1, <2>3, <2>5 DEF Moves, StockMove
<1>4. CASE change_order_line_quantity(w)
  <2>1. /\ r.op = "edit"
        /\ \/ r.old < r.new /\ increase_allocations({r.line}, [m \in {r.line} |-> r.new - r.old])
           \/ r.old > r.new /\ decrease_allocations({r.line}, [m \in {r.line} |-> r.old - r.new])
           \/ UNCHANGED vars
    BY <1>1, <1>4 DEF change_order_line_quantity
  <2>2. r.line \in Lines /\ r.old \in 1 .. MaxNeed /\ r.new \in 1 .. MaxNeed
    BY <1>2, <2>1, RequestContents
  <2>3. CASE r.old < r.new /\ increase_allocations({r.line}, [m \in {r.line} |-> r.new - r.old])
    <3>1. PICK q \in 1 .. MaxNeed : q = r.new - r.old
      BY <1>n, <2>2, <2>3
    <3> QED BY <2>2, <2>3, <3>1 DEF Moves, StockMove
  <2>4. CASE r.old > r.new /\ decrease_allocations({r.line}, [m \in {r.line} |-> r.old - r.new])
    <3>1. PICK q \in 1 .. MaxNeed : q = r.old - r.new
      BY <1>n, <2>2, <2>4
    <3> QED BY <2>2, <2>4, <3>1 DEF Moves, StockMove
  <2> QED BY <2>1, <2>3, <2>4 DEF Moves
<1>5. CASE create_fulfillments(w)
  <2>1. r.op = "fulfill" /\ create_fulfillment_lines(r)
    BY <1>1, <1>5 DEF create_fulfillments
  <2>2. /\ r.line \in Lines /\ r.quantity \in 1 .. MaxNeed /\ r.warehouse \in Warehouses
        /\ r.exceed \in BOOLEAN
    BY <1>2, <2>1, RequestContents
  <2>3. \/ UNCHANGED vars
        \/ decrease_stock({r.line}, [m \in {r.line} |-> r.quantity], [m \in {r.line} |-> r.warehouse],
                          Lines, r.exceed)
    BY <2>1 DEF create_fulfillment_lines
  <2>4. [m \in {r.line} |-> r.warehouse] \in [{r.line} -> Warehouses \cup {NoWarehouse}]
    BY <2>2
  <2> QED BY <2>2, <2>3, <2>4 DEF Moves, StockMove
<1>6. CASE approve_fulfillment(w)
  <2>1. PICK row : row = fulfillment[r.target]
    OBVIOUS
  <2>2. /\ r.op = "approve"
        /\ decrease_stock({row.line}, [m \in {row.line} |-> row.quantity],
                          [m \in {row.line} |-> row.warehouse], Lines, r.exceed)
    BY <1>1, <1>6, <2>1 DEF approve_fulfillment
  <2>3. row \in FulfillmentRow /\ r.exceed \in BOOLEAN
    BY <1>2, <2>1, <2>2, RequestContents
  <2>4. row.line \in Lines /\ row.quantity \in 1 .. MaxNeed /\ row.warehouse \in Warehouses \cup {NoWarehouse}
    BY <2>3 DEF FulfillmentRow
  <2>5. [m \in {row.line} |-> row.warehouse] \in [{row.line} -> Warehouses \cup {NoWarehouse}]
    BY <2>4
  <2> QED BY <2>2, <2>3, <2>4, <2>5 DEF Moves, StockMove
<1>7. CASE cancel_fulfillment(w)
  <2>1. PICK row : row = fulfillment[r.target]
    OBVIOUS
  <2>2. /\ r.op = "cancel"
        /\ UNCHANGED vars \/ (r.warehouse # NoWarehouse /\ increase_stock(row.line, r.warehouse, row.quantity))
    BY <1>1, <1>7, <2>1 DEF cancel_fulfillment
  <2>3. row \in FulfillmentRow /\ r.warehouse \in Warehouses \cup {NoWarehouse}
    BY <1>2, <2>1, <2>2, RequestContents
  <2>4. row.line \in Lines /\ row.quantity \in 1 .. MaxNeed
    BY <2>3 DEF FulfillmentRow
  <2> QED BY <2>2, <2>3, <2>4 DEF Moves, StockMove
<1>8. CASE cancel_order(w)
  <2>1. r.op = "cancel_order" /\ deallocate_stock_for_orders(OrderLines(r.order))
    BY <1>1, <1>8 DEF cancel_order
  <2>2. r.order \in Orders
    BY <1>2, <2>1, RequestContents
  <2>3. PICK l \in Lines : OrderLines(r.order) = {l}
    BY <2>2, OrderSets
  <2>4. 1 \in 1 .. MaxNeed
    BY BoundAssumption
  <2> QED BY <2>1, <2>3, <2>4 DEF Moves, StockMove
<1>9. CASE order_confirm(w) \/ RequestFails(w)
  BY <1>9 DEF order_confirm, RequestFails, Moves
<1> QED BY <1>3, <1>4, <1>5, <1>6, <1>7, <1>8, <1>9 DEF CommitRequest

LEMMA MoveTypes ==
  ASSUME TypeOK, Moves
  PROVE  TypeOK'
<1>1. ASSUME NEW l \in Lines, NEW q \in 1 .. MaxNeed, StockMove(l, q)
      PROVE  TypeOK'
  <2>1. q \in Nat
    BY BoundAssumption
  <2>2. [m \in {l} |-> q] \in [{l} -> Int] /\ {l} \in SUBSET Lines
    BY <2>1
  <2> DEFINE one == [m \in {l} |-> q]
  <2> HIDE DEF one
  <2>3. one \in [{l} -> Int]
    BY <2>2 DEF one
  <2>4. CASE create_order({l}, one, FALSE, ReservationsEnabled)
    BY <2>2, <2>3, <2>4, CreateOrderTypes, SettingsAssumption
  <2>5. CASE increase_allocations({l}, one)
    BY <2>2, <2>3, <2>5, IncreaseAllocationsTypes
  <2>6. CASE decrease_allocations({l}, one)
    <3>1. /\ allocation' \in [Rows -> RowValue] /\ HasStock(allocation')
          /\ quantity_allocated' \in [Stocks -> Int]
      BY <2>2, <2>3, <2>6, DeallocateTypes DEF decrease_allocations
    <3> QED BY <2>6, <3>1 DEF decrease_allocations, TypeOK, RowValue, HasStock, taskVars
  <2>7. ASSUME NEW W, NEW exceed, decrease_stock({l}, one, W, Lines, exceed)
        PROVE  TypeOK'
    BY <2>2, <2>3, <2>7, DecreaseStockTypes
  <2>8. CASE (\E w \in Warehouses : increase_stock(l, w, q)) \/ deallocate_stock_for_orders({l})
    BY <2>1, <2>2, <2>8, IncreaseStockTypes, DeallocateForOrdersTypes
  <2> QED BY <1>1, <2>4, <2>5, <2>6, <2>7, <2>8 DEF StockMove, one
<1> QED BY <1>1, TypesStay DEF Moves

LEMMA StaffTypes ==
  ASSUME TypeOK, NEW s \in Stocks, NEW q \in 0 .. MaxQuantity, update_or_create_variant_stocks(s, q)
  PROVE  TypeOK'
<1>1. q \in Int
  BY BoundAssumption
<1> QED BY <1>1 DEF update_or_create_variant_stocks, TypeOK, taskVars

(* A fulfillment is written.                                                *)
LEMMA FulfillmentWritten ==
  ASSUME OrdersTyped, NEW f \in Fulfillments, NEW row \in FulfillmentRow,
         fulfillment' = [fulfillment EXCEPT ![f] = row]
  PROVE  /\ fulfillment' \in [Fulfillments -> FulfillmentRow \cup {NotCreated}]
         /\ FulfillmentsStay
BY DEF OrdersTyped, FulfillmentsStay

LEMMA CommitKeeps ==
  ASSUME OrderInv, NEW w \in Workers, CommitRequest(w)
  PROVE  OrderInv'
<1>m. TypeOK'
  BY CommitMoves, MoveTypes DEF OrderInv
<1>o. OrdersTyped /\ RequestsOK
  BY DEF OrderInv
<1>1. PICK r : r = request[w]
  OBVIOUS
<1>2. RequestOK(r)
  BY <1>1 DEF OrderInv, RequestsOK
<1>3. SUFFICES OrdersTyped' /\ FulfillmentsStay /\ Finish(w)
  BY <1>m, <1>o, RequestsStay DEF OrderInv
<1>4. CASE draft_order_complete(w)
  <2>1. r.order \in Orders
    BY <1>1, <1>2, <1>4, RequestContents DEF draft_order_complete
  <2> QED BY <1>1, <1>o, <1>4, <2>1 DEF draft_order_complete, OrdersTyped, OrderStatus, FulfillmentsStay
<1>5. CASE change_order_line_quantity(w)
  <2>1. r.line \in Lines /\ r.new \in 1 .. MaxNeed
    BY <1>1, <1>2, <1>5, RequestContents DEF change_order_line_quantity
  <2> QED BY <1>1, <1>o, <1>5, <2>1 DEF change_order_line_quantity, OrdersTyped, FulfillmentsStay
<1>6. CASE order_confirm(w)
  <2>1. r.order \in Orders
    BY <1>1, <1>2, <1>6, RequestContents DEF order_confirm
  <2>2. status' \in [Orders -> OrderStatus]
    BY <1>1, <1>o, <1>6, <2>1, StatusType DEF order_confirm
  <2> QED BY <1>o, <1>6, <2>2 DEF order_confirm, OrdersTyped, FulfillmentsStay
<1>7. CASE create_fulfillments(w)
  <2>1. /\ r.op = "fulfill" /\ fulfilled' = [fulfilled EXCEPT ![r.line] = r.seen + r.quantity]
        /\ Finish(w) /\ UNCHANGED ordered
        /\ UNCHANGED status \/ update_order_status(LineOrder[r.line])
    BY <1>1, <1>7 DEF create_fulfillments, create_fulfillment_lines
  <2>2. r.line \in Lines /\ r.quantity \in 1 .. MaxNeed /\ r.warehouse \in Warehouses /\ r.seen \in Int
    BY <1>2, <2>1, RequestContents
  <2> DEFINE row == [status |-> IF FulfillmentAutoApprove THEN "FULFILLED" ELSE "WAITING",
                     line |-> r.line, quantity |-> r.quantity,
                     warehouse |-> IF <<LineVariant[r.line], r.warehouse>> \in stockRows
                                   THEN r.warehouse ELSE NoWarehouse]
  <2>3. PICK f \in Fulfillments : fulfillment' = [fulfillment EXCEPT ![f] = row]
    BY <1>1, <1>7 DEF create_fulfillments
  <2>4. row \in FulfillmentRow
    BY <2>2, <2>3 DEF FulfillmentRow
  <2>5. fulfillment' \in [Fulfillments -> FulfillmentRow \cup {NotCreated}] /\ FulfillmentsStay
    BY <1>o, <2>3, <2>4, FulfillmentWritten
  <2>6. r.seen + r.quantity \in Int
    BY <2>2, BoundAssumption
  <2>7. fulfilled' \in [Lines -> Int]
    BY <1>o, <2>1, <2>2, <2>6 DEF OrdersTyped
  <2>8. status' \in [Orders -> OrderStatus]
    BY <1>o, <2>1, <2>2, StatusType, OrderSets DEF OrdersTyped
  <2> QED BY <1>o, <2>1, <2>5, <2>7, <2>8 DEF OrdersTyped
<1>8. CASE approve_fulfillment(w) \/ cancel_fulfillment(w)
  <2>1. r.op \in {"approve", "cancel"}
    BY <1>1, <1>8 DEF approve_fulfillment, cancel_fulfillment
  <2>2. r.target \in Fulfillments /\ fulfillment[r.target] \in FulfillmentRow
    BY <1>2, <2>1, RequestContents
  <2>3. PICK row : row = fulfillment[r.target]
    OBVIOUS
  <2>4. row.line \in Lines /\ row.quantity \in 1 .. MaxNeed
    BY <2>2, <2>3 DEF FulfillmentRow
  <2>5. PICK st \in {"FULFILLED", "CANCELED"} :
          fulfillment' = [fulfillment EXCEPT ![r.target].status = st]
    BY <1>1, <1>8 DEF approve_fulfillment, cancel_fulfillment
  <2>6. fulfillment' = [fulfillment EXCEPT ![r.target] = [row EXCEPT !.status = st]]
    BY <1>o, <2>2, <2>3, <2>5 DEF OrdersTyped
  <2>7. [row EXCEPT !.status = st] \in FulfillmentRow
    BY <2>2, <2>3 DEF FulfillmentRow
  <2>8. fulfillment' \in [Fulfillments -> FulfillmentRow \cup {NotCreated}] /\ FulfillmentsStay
    BY <1>o, <2>2, <2>6, <2>7, FulfillmentWritten
  <2>9. /\ UNCHANGED ordered /\ Finish(w) /\ update_order_status(LineOrder[row.line])
        /\ UNCHANGED fulfilled \/ fulfilled' = [fulfilled EXCEPT ![row.line] = @ - row.quantity]
    BY <1>1, <1>8, <2>3 DEF approve_fulfillment, cancel_fulfillment
  <2>10. fulfilled[row.line] - row.quantity \in Int
    BY <1>o, <2>4, BoundAssumption DEF OrdersTyped
  <2>11. fulfilled' \in [Lines -> Int]
    BY <1>o, <2>4, <2>9, <2>10 DEF OrdersTyped
  <2>12. status' \in [Orders -> OrderStatus]
    BY <1>o, <2>4, <2>9, StatusType, OrderSets
  <2> QED BY <1>o, <2>8, <2>9, <2>11, <2>12 DEF OrdersTyped
<1>9. CASE cancel_order(w)
  <2>1. r.order \in Orders /\ r.status \in {"CANCELED", "EXPIRED"}
    BY <1>1, <1>2, <1>9, RequestContents DEF cancel_order
  <2> QED BY <1>1, <1>o, <1>9, <2>1 DEF cancel_order, OrdersTyped, OrderStatus, FulfillmentsStay
<1>10. CASE RequestFails(w)
  BY <1>o, <1>10 DEF RequestFails, OrdersTyped, FulfillmentsStay, orderVars
<1> QED BY <1>4, <1>5, <1>6, <1>7, <1>8, <1>9, <1>10 DEF CommitRequest

LEMMA NextOrders == OrderInv /\ [Next]_allVars => OrderInv'
<1> SUFFICES ASSUME OrderInv, [Next]_allVars PROVE OrderInv'
  OBVIOUS
<1>1. CASE StaffSetsQuantity
  <2>1. TypeOK'
    BY <1>1, StaffTypes DEF StaffSetsQuantity, OrderInv
  <2> QED BY <1>1, <2>1 DEF StaffSetsQuantity, OrderInv, OrdersTyped, RequestsOK, RequestOK, orderVars
<1>2. CASE UNCHANGED allVars
  <2>1. UNCHANGED vars /\ UNCHANGED <<orderVars, request>>
    BY <1>2 DEF allVars
  <2> QED BY <2>1, TypesStay DEF OrderInv, OrdersTyped, RequestsOK, RequestOK, orderVars
<1> QED BY <1>1, <1>2, ValidateRequestKeeps, CommitKeeps DEF Next

LEMMA OrderInvHolds == Spec => []OrderInv
BY InitOrders, NextOrders, PTL DEF Spec

(* The tables of the orders and of the stocks are well formed after every   *)
(* transaction, whatever the workers read before they had the locks.        *)
THEOREM OrdersAreWellFormed == Spec => []OrderTypeOK
<1>1. OrderInv => OrderTypeOK
  BY BoundAssumption DEF OrderInv, OrdersTyped, OrderTypeOK, OrderStatus, FulfillmentRow
<1> QED BY OrderInvHolds, <1>1, PTL

-----------------------------------------------------------------------------
(* The orders have one line each, so no call finds two lines of a variant.  *)
LEMMA OneLineRequests ==
  DistinctVariants /\ \A l \in Lines : {l} \in Requests
BY OneLineOrders DEF DistinctVariants, Requests

LEMMA MoveCounts ==
  ASSUME TypeOK, CounterMatchesRows, MaxCopies = 1, Moves
  PROVE  CounterMatchesRows'
<1>1. CASE UNCHANGED vars
  BY <1>1 DEF CounterMatchesRows, StockAllocated, vars, stockVars
<1>2. ASSUME NEW l \in Lines, NEW q \in 1 .. MaxNeed, StockMove(l, q)
      PROVE  CounterMatchesRows'
  <2>1. q \in Nat /\ {l} \in SUBSET Lines /\ {l} \in Requests /\ DistinctVariants
    BY BoundAssumption, OneLineRequests
  <2> DEFINE one == [m \in {l} |-> q]
  <2>2. one \in [{l} -> Int] /\ \A m \in {l} : one[m] \in Int
    BY <2>1
  <2> HIDE DEF one
  <2>3. CASE create_order({l}, one, FALSE, ReservationsEnabled)
    BY <2>1, <2>2, <2>3, AllocateCounts, SettingsAssumption DEF create_order
  <2>4. CASE increase_allocations({l}, one)
    BY <2>1, <2>2, <2>4, IncreaseAllocationsCounts
  <2>5. CASE deallocate_stock({l}, one)
    BY <2>1, <2>2, <2>5, DeallocateCounts
  <2>6. CASE (\E w \in Warehouses : increase_stock(l, w, q)) \/ deallocate_stock_for_orders({l})
    BY <2>1, <2>6, IncreaseStockCounts, DeallocateForOrdersCounts
  <2> QED BY <1>2, <2>3, <2>4, <2>5, <2>6
          DEF StockMove, one, decrease_allocations, decrease_stock
<1> QED BY <1>1, <1>2 DEF Moves

(* What a step of the orders does to the stock tables.                      *)
StaffSets == \E s \in Stocks, q \in 0 .. MaxQuantity : update_or_create_variant_stocks(s, q)

LEMMA NextMoves ==
  ASSUME OrderInv, [Next]_allVars
  PROVE  Moves \/ StaffSets
<1>1. CASE StaffSetsQuantity
  BY <1>1 DEF StaffSetsQuantity, StaffSets
<1>2. ASSUME NEW w \in Workers, ValidateRequest(w) PROVE UNCHANGED vars
  BY <1>2 DEF ValidateRequest, draft_order_complete_validate, order_confirm_get_instance,
     order_line_update_clean_input, order_fulfill_clean_input, fulfillment_approve_clean_input,
     fulfillment_cancel_validate, order_cancel_clean, expire_orders_read, Validate
<1>3. CASE UNCHANGED allVars
  BY <1>3 DEF allVars, Moves
<1> QED BY <1>1, <1>2, <1>3, CommitMoves DEF Next, Moves

(* The counter of a stock is the sum of its rows after every transaction of *)
(* any number of workers, on the database that the models declare (one      *)
(* allocation row per line and stock): an order line whose request read     *)
(* stale rows still moves counter and row together.                         *)
THEOREM OrdersKeepTheCounter ==
  ASSUME MaxCopies = 1
  PROVE  Spec => []CounterMatchesRows
<1>1. Init => CounterMatchesRows
  <2> SUFFICES ASSUME Init, NEW s \in Stocks
               PROVE  quantity_allocated[s] = StockAllocated(allocation, s)
    BY DEF CounterMatchesRows
  <2>1. \A k \in RowsOfStock(s) : allocation[k] = NoRow
    BY RowSets DEF Init, WarehouseInit
  <2>2. Total(allocation, RowsOfStock(s)) = 0
    BY <2>1, TotalZero DEF NoRow
  <2> QED BY <2>2 DEF Init, WarehouseInit, StockAllocated
<1>2. OrderInv /\ CounterMatchesRows /\ [Next]_allVars => CounterMatchesRows'
  <2> SUFFICES ASSUME OrderInv, CounterMatchesRows, [Next]_allVars PROVE CounterMatchesRows'
    OBVIOUS
  <2>1. CASE StaffSets
    BY <2>1 DEF StaffSets, update_or_create_variant_stocks, CounterMatchesRows, StockAllocated
  <2>2. CASE Moves
    BY <2>2, MoveCounts DEF OrderInv
  <2> QED BY <2>1, <2>2, NextMoves
<1> QED BY <1>1, <1>2, OrderInvHolds, PTL DEF Spec

(* A request never promises units that are not there, however old what it   *)
(* read before its transaction is: allocations are computed on rows read    *)
(* under the lock.  (With reservations they are not: see AllocationsFit in  *)
(* the run CheckoutStockOverallocated.)                                     *)
THEOREM OrdersFitTheStock ==
  ASSUME ReservationsEnabled = FALSE
  PROVE  Spec => AllocationsFit
<1>1. OrderInv /\ OrderInv' /\ [Next]_allVars => [NoDeeper]_vars
  <2> SUFFICES ASSUME OrderInv, OrderInv', [Next]_allVars PROVE [NoDeeper]_vars
    OBVIOUS
  <2>t. TypeOK /\ TypeOK'
    BY DEF OrderInv
  <2>1. CASE StaffSets
    <3>1. UNCHANGED allocation
      BY <2>1 DEF StaffSets, update_or_create_variant_stocks
    <3>2. \A k \in Rows : allocation[k] \in Int /\ allocation'[k] = allocation[k]
      BY <2>t, <3>1 DEF TypeOK, NoRow
    <3> QED BY <2>t, <3>2, FewerUnitsFit
  <2>2. ASSUME NEW l \in Lines, NEW q \in 1 .. MaxNeed, StockMove(l, q)
        PROVE  NoDeeper
    <3>1. q \in Nat /\ {l} \in SUBSET Lines /\ {l} \in Requests /\ DistinctVariants
      BY BoundAssumption, OneLineRequests
    <3> DEFINE one == [m \in {l} |-> q]
    <3>2. one \in [{l} -> Int]
      BY <3>1
    <3> HIDE DEF one
    <3>3. CASE create_order({l}, one, FALSE, ReservationsEnabled)
      BY <2>t, <3>1, <3>2, <3>3, AllocateFits DEF create_order
    <3>4. CASE increase_allocations({l}, one)
      BY <2>t, <3>1, <3>2, <3>4, IncreaseAllocationsFits
    <3>5. CASE deallocate_stock({l}, one)
      BY <2>t, <3>1, <3>2, <3>5, DeallocateFits
    <3>6. CASE \E w \in Warehouses : increase_stock(l, w, q)
      BY <2>t, <3>1, <3>6, IncreaseStockFits
    <3>7. CASE deallocate_stock_for_orders({l})
      <4>1. \A k \in Rows : allocation[k] \in Int /\ (allocation'[k] = allocation[k] \/ allocation'[k] = 0)
        BY <2>t, <3>7 DEF deallocate_stock_for_orders, TypeOK, NoRow
      <4> QED BY <2>t, <4>1, FewerUnitsFit
    <3> QED BY <2>2, <3>3, <3>4, <3>5, <3>6, <3>7
            DEF StockMove, one, decrease_allocations, decrease_stock
  <2> QED BY <2>1, <2>2, NextMoves DEF Moves
<1> QED BY <1>1, OrderInvHolds, PTL DEF Spec, AllocationsFit, NoDeeper

-----------------------------------------------------------------------------
(* How far the tables go: nothing is reserved by an order, and a row holds  *)
(* what a stock can give, or what a canceled fulfillment brought back.      *)
WithinBounds ==
  /\ \A k \in Rows : reservation[k] = NoRow
  /\ \A s \in Stocks : quantity[s] <= MaxQuantity
  /\ \A k \in Rows : allocation[k] <= MaxQuantity + 1

LEMMA NewRowsInBounds ==
  ASSUME TypeOK, WithinBounds, NEW L \in SUBSET Lines, NEW need, \A l \in L : need[l] \in Int,
         NEW rows \in [Rows -> RowValue], \A k \in Rows : rows[k] <= MaxQuantity + 1,
         NEW check \in BOOLEAN
  PROVE  \A k \in Rows : Created(rows, create_allocations(rows, L, need, check))[k] <= MaxQuantity + 1
<1> SUFFICES ASSUME NEW k \in Rows
             PROVE  Created(rows, create_allocations(rows, L, need, check))[k] <= MaxQuantity + 1
  OBVIOUS
<1> DEFINE take == create_allocations(rows, L, need, check)
<1>1. take[k] \in Nat /\ (take[k] > 0 => take[k] <= quantity[k[2]])
  BY AllocationRows
<1> HIDE DEF take
<1>2. k[2] \in Stocks
  BY DEF Rows
<1>3. quantity[k[2]] \in Int /\ quantity[k[2]] <= MaxQuantity /\ MaxQuantity \in Nat
  BY <1>2, BoundAssumption DEF TypeOK, WithinBounds
<1>4. Created(rows, take)[k] = IF take[k] > 0 THEN take[k] ELSE rows[k]
  BY DEF Created
<1>5. Created(rows, take)[k] <= MaxQuantity + 1
  BY <1>1, <1>3, <1>4
<1> QED BY <1>5 DEF take

LEMMA MoveInBounds ==
  ASSUME TypeOK, TypeOK', WithinBounds, NEW l \in Lines, NEW q \in 1 .. MaxNeed, StockMove(l, q)
  PROVE  WithinBounds'
<1>1. q \in Nat /\ {l} \in SUBSET Lines /\ MaxQuantity \in Nat
  BY BoundAssumption
<1> DEFINE one == [m \in {l} |-> q]
<1>2. one \in [{l} -> Int] /\ \A m \in {l} : one[m] \in Int
  BY <1>1
<1>3. /\ allocation \in [Rows -> RowValue] /\ \A k \in Rows : allocation[k] \in Int
      /\ \A s \in Stocks : quantity[s] \in Int
  BY DEF TypeOK, RowValue, NoRow
<1> HIDE DEF one
<1>4. UNCHANGED reservation
  BY DEF StockMove, create_order, increase_allocations, decrease_allocations, decrease_stock,
     increase_stock, deallocate_stock_for_orders
<1>5. CASE create_order({l}, one, FALSE, ReservationsEnabled)
  <2>1. /\ allocation' = Created(allocation, create_allocations(allocation, {l}, one, ReservationsEnabled))
        /\ UNCHANGED quantity
    BY <1>5 DEF create_order, allocate_stocks
  <2>2. \A k \in Rows : allocation'[k] <= MaxQuantity + 1
    BY <1>1, <1>2, <1>3, <2>1, NewRowsInBounds, SettingsAssumption DEF WithinBounds
  <2> QED BY <1>4, <2>1, <2>2 DEF WithinBounds
<1>6. CASE increase_allocations({l}, one)
  <2> DEFINE need == [m \in {l} |-> one[m] + Total(allocation, RowsOfLines({m}))]
             rows == [k \in Rows |-> IF k[1] \in {l} THEN NoRow ELSE allocation[k]]
  <2>1. allocation' = Created(rows, create_allocations(rows, {l}, need, FALSE)) /\ UNCHANGED quantity
    BY <1>6 DEF increase_allocations
  <2>2. rows \in [Rows -> RowValue]
    BY <1>3 DEF RowValue
  <2>3. \A k \in Rows : rows[k] <= MaxQuantity + 1
    BY <1>1 DEF WithinBounds, NoRow
  <2>4. \A m \in {l} : need[m] \in Int
    <3>1. RowsOfLines({l}) \in SUBSET Rows
      BY RowSets
    <3>2. Total(allocation, RowsOfLines({l})) \in Nat
      BY <1>3, <3>1, TableSums
    <3> QED BY <1>2, <3>2
  <2> HIDE DEF need, rows
  <2>5. \A k \in Rows : allocation'[k] <= MaxQuantity + 1
    BY <1>1, <2>1, <2>2, <2>3, <2>4, NewRowsInBounds
  <2> QED BY <1>4, <2>1, <2>5 DEF WithinBounds
<1>7. CASE deallocate_stock({l}, one) /\ \A s \in Stocks : quantity'[s] <= quantity[s]
  <2>1. \A k \in Rows : Deallocated({l}, one)[k] \in Nat
    BY <1>1, <1>2, <1>3, DeallocatedRows
  <2>2. \A k \in Rows : allocation'[k] = allocation[k] - Deallocated({l}, one)[k]
    BY <1>7 DEF deallocate_stock
  <2>3. ASSUME NEW k \in Rows PROVE allocation'[k] <= MaxQuantity + 1
    <3>1. PICK a, d : a = allocation[k] /\ d = Deallocated({l}, one)[k]
      OBVIOUS
    <3>2. a \in Int /\ d \in Nat /\ a <= MaxQuantity + 1 /\ allocation'[k] = a - d
      BY <1>3, <2>1, <2>2, <3>1 DEF WithinBounds
    <3> QED BY <1>1, <3>2
  <2>4. \A s \in Stocks : quantity'[s] \in Int
    BY DEF TypeOK
  <2>5. \A s \in Stocks : quantity'[s] <= MaxQuantity
    BY <1>1, <1>3, <1>7, <2>4 DEF WithinBounds
  <2> QED BY <1>4, <2>3, <2>5 DEF WithinBounds
<1>8. CASE decrease_allocations({l}, one)
  BY <1>3, <1>7, <1>8 DEF decrease_allocations
<1>9. ASSUME NEW W, NEW exceed, decrease_stock({l}, one, W, Lines, exceed)
      PROVE  WithinBounds'
  <2> DEFINE ships(s) == {m \in {l} \cap Lines : <<LineVariant[m], W[m]>> = s}
  <2>1. /\ deallocate_stock({l}, one)
        /\ quantity' = [s \in Stocks |->
             IF s \in stockRows THEN quantity[s] - Total(one, ships(s)) ELSE quantity[s]]
    BY <1>9 DEF decrease_stock
  <2>2. ASSUME NEW s \in Stocks PROVE Total(one, ships(s)) \in Nat
    <3>1. IsFiniteSet(ships(s)) /\ \A m \in ships(s) : one[m] \in Int
      BY <1>2, LinesAssumption, FS_Subset
    <3> HIDE DEF ships
    <3> QED BY <3>1, TotalType
  <2> HIDE DEF ships
  <2>3. \A s \in Stocks : quantity'[s] <= quantity[s]
    BY <1>3, <2>1, <2>2
  <2> QED BY <1>7, <2>1, <2>3
<1>10. ASSUME NEW w \in Warehouses, increase_stock(l, w, q) PROVE WithinBounds'
  <2> DEFINE s == <<LineVariant[l], w>>
  <2>1. PICK c \in Copies :
          /\ quantity[s] + q <= MaxQuantity
          /\ allocation[<<l, s, c>>] + q <= MaxQuantity
          /\ quantity' = [quantity EXCEPT ![s] = @ + q]
          /\ allocation' = [allocation EXCEPT ![<<l, s, c>>] = IF @ = NoRow THEN q ELSE @ + q]
    BY <1>10 DEF increase_stock
  <2>2. s \in Stocks
    BY LineVariantAssumption DEF Stocks
  <2> HIDE DEF s
  <2>3. PICK j : j = <<l, s, c>>
    OBVIOUS
  <2>4. j \in Rows
    BY <2>2, <2>3 DEF Rows
  <2>5. /\ allocation[j] + q <= MaxQuantity
        /\ allocation' = [allocation EXCEPT ![j] = IF @ = NoRow THEN q ELSE @ + q]
    BY <2>1, <2>3
  <2>6. \A k \in Rows : allocation'[k] <= MaxQuantity + 1
    BY <1>1, <1>3, <2>4, <2>5 DEF WithinBounds, NoRow
  <2>7. \A t \in Stocks : quantity'[t] <= MaxQuantity
    BY <1>1, <1>3, <2>1, <2>2 DEF WithinBounds, TypeOK
  <2> QED BY <1>4, <2>6, <2>7 DEF WithinBounds
<1>11. CASE deallocate_stock_for_orders({l})
  <2>1. \A k \in Rows : allocation'[k] = allocation[k] \/ allocation'[k] = 0
    BY <1>11 DEF deallocate_stock_for_orders
  <2>2. \A k \in Rows : allocation'[k] <= MaxQuantity + 1
    BY <1>1, <2>1 DEF WithinBounds
  <2>3. UNCHANGED quantity
    BY <1>11 DEF deallocate_stock_for_orders
  <2> QED BY <1>4, <2>2, <2>3 DEF WithinBounds
<1> QED BY <1>5, <1>6, <1>8, <1>9, <1>10, <1>11 DEF StockMove, one

LEMMA BoundsHold == Spec => []WithinBounds
<1>1. Init => WithinBounds
  BY BoundAssumption DEF Init, WarehouseInit, WithinBounds, NoRow
<1>2. OrderInv /\ OrderInv' /\ WithinBounds /\ [Next]_allVars => WithinBounds'
  <2> SUFFICES ASSUME OrderInv, OrderInv', WithinBounds, [Next]_allVars PROVE WithinBounds'
    OBVIOUS
  <2>1. CASE StaffSets
    BY <2>1, BoundAssumption DEF StaffSets, update_or_create_variant_stocks, WithinBounds, OrderInv, TypeOK
  <2>2. CASE UNCHANGED vars
    BY <2>2 DEF vars, stockVars, WithinBounds
  <2>3. ASSUME NEW l \in Lines, NEW q \in 1 .. MaxNeed, StockMove(l, q) PROVE WithinBounds'
    BY <2>3, MoveInBounds DEF OrderInv
  <2> QED BY <2>1, <2>2, <2>3, NextMoves DEF Moves
<1> QED BY <1>1, <1>2, OrderInvHolds, PTL DEF Spec

(* Every transaction of an order is one that Warehouse allows any caller,   *)
(* however many workers there are: draft orders allocate, edits, shipments  *)
(* and cancellations move what the line holds.  The counter bound of        *)
(* Warehouse only has to leave room for the rows of all lines.              *)
THEOREM OrdersUseTheWarehouse ==
  ASSUME MaxCopies = 1, Orders \cap CheckoutOrders = {},
         MaxCounter >= Cardinality(Lines) * (MaxQuantity + 1)
  PROVE  Spec => WarehouseSpec
<1>1. Init => WarehouseInit
  BY DEF Init
<1>2. /\ OrderInv /\ OrderInv' /\ WithinBounds /\ WithinBounds' /\ CounterMatchesRows'
      /\ [Next]_allVars
      => [WarehouseNext]_vars
  <2> SUFFICES ASSUME OrderInv, OrderInv', WithinBounds, WithinBounds', CounterMatchesRows', [Next]_allVars
               PROVE  [WarehouseNext]_vars
    OBVIOUS
  <2>1. CASE StaffSets
    BY <2>1 DEF StaffSets, WarehouseNext
  <2>2. CounterInBounds
    <3>1. allocation' \in [Rows -> RowValue] /\ MaxQuantity + 1 \in Nat
      BY BoundAssumption DEF OrderInv, TypeOK, RowValue
    <3>2. \A k \in Rows : k[3] = 1
      BY DEF Rows, Copies
    <3>3. \A k \in Rows : allocation'[k] <= MaxQuantity + 1
      BY DEF WithinBounds
    <3>4. ASSUME NEW s \in Stocks PROVE quantity_allocated'[s] \in -MaxCounter .. MaxCounter
      <4>1. PICK n : n = StockAllocated(allocation', s)
        OBVIOUS
      <4>2. n \in 0 .. Cardinality(Lines) * (MaxQuantity + 1)
        BY <3>1, <3>2, <3>3, <4>1, AllocatedBound
      <4>3. PICK most : most = Cardinality(Lines) * (MaxQuantity + 1)
        OBVIOUS
      <4>4. most \in Nat
        BY <3>1, <4>3, LinesAssumption, FS_CardinalityType
      <4>5. n \in -MaxCounter .. MaxCounter
        BY <4>2, <4>3, <4>4, BoundAssumption
      <4> QED BY <4>1, <4>5 DEF CounterMatchesRows
    <3> QED BY <3>4 DEF CounterInBounds
  <2>3. ASSUME NEW l \in Lines, NEW q \in 1 .. MaxNeed, StockMove(l, q)
        PROVE  OrderStep \/ LineStep \/ \E L \in SUBSET Lines : deallocate_stock_for_orders(L)
    <3> DEFINE one == [m \in {l} |-> q]
    <3>1. {l} \in Requests /\ one \in Quantities({l}) /\ {l} \in SUBSET Lines
      BY OneLineRequests DEF Quantities
    <3>2. HasNone(reservation, {l})
      BY RowSets DEF HasNone, WithinBounds
    <3>3. OrdersOf({l}) \cap CheckoutOrders = {} /\ Cardinality({l}) = 1
      <4>1. OrdersOf({l}) = {LineOrder[l]} /\ LineOrder[l] \in Orders
        BY OrderSets DEF OrdersOf
      <4>2. Cardinality({l}) = 1
        BY FS_Singleton
      <4> QED BY <4>1, <4>2
    <3> HIDE DEF one
    <3>4. CASE create_order({l}, one, FALSE, ReservationsEnabled)
      BY <3>1, <3>3, <3>4 DEF OrderStep
    <3>5. CASE increase_allocations({l}, one)
      BY <3>1, <3>2, <3>5 DEF OrderStep
    <3>6. CASE decrease_allocations({l}, one)
      BY <3>1, <3>6 DEF OrderStep
    <3>7. ASSUME NEW W \in [{l} -> Warehouses \cup {NoWarehouse}], NEW exceed \in BOOLEAN,
                 decrease_stock({l}, one, W, Lines, exceed)
          PROVE  OrderStep
      <4>1. {l} \cap Lines = {l} /\ {l} \cap {l} = {l}
        OBVIOUS
      <4>2. decrease_stock({l}, one, W, {l}, exceed)
        <5> DEFINE there(s) == {m \in {l} \cap Lines : <<LineVariant[m], W[m]>> = s}
                   here(s) == {m \in {l} \cap {l} : <<LineVariant[m], W[m]>> = s}
        <5>1. \A s : there(s) = here(s)
          OBVIOUS
        <5>2. /\ deallocate_stock({l}, one)
              /\ quantity' = [s \in Stocks |->
                   IF s \in stockRows THEN quantity[s] - Total(one, there(s)) ELSE quantity[s]]
              /\ exceed \/ \A m \in {l} \cap Lines :
                   /\ <<LineVariant[m], W[m]>> \in stockRows
                   /\ quantity'[<<LineVariant[m], W[m]>>]
                        >= StockAllocated(allocation', <<LineVariant[m], W[m]>>)
              /\ \A s \in Stocks : quantity'[s] >= -MaxQuantity
              /\ UNCHANGED <<stockRows, reservation, expired, taskVars>>
          BY <3>7 DEF decrease_stock
        <5> HIDE DEF there, here
        <5>3. quantity' = [s \in Stocks |->
                IF s \in stockRows THEN quantity[s] - Total(one, here(s)) ELSE quantity[s]]
          BY <5>1, <5>2
        <5> QED BY <4>1, <5>2, <5>3 DEF decrease_stock, here
      <4>3. {l} \in SUBSET {l}
        OBVIOUS
      <4>4. \E V \in [{l} -> Warehouses \cup {NoWarehouse}], tracked \in SUBSET {l}, ex \in BOOLEAN :
              decrease_stock({l}, one, V, tracked, ex)
        BY <4>2, <4>3
      <4> QED BY <3>1, <4>4 DEF OrderStep
    <3>8. CASE \E w \in Warehouses : increase_stock(l, w, q)
      BY <3>2, <3>8 DEF LineStep
    <3> QED BY <2>3, <3>1, <3>4, <3>5, <3>6, <3>7, <3>8 DEF StockMove, one
  <2>4. ASSUME NEW l \in Lines, NEW q \in 1 .. MaxNeed, StockMove(l, q) PROVE WarehouseNext
    BY <2>2, <2>3, <2>4 DEF WarehouseNext
  <2> QED BY <2>1, <2>4, NextMoves DEF Moves
<1> QED BY <1>1, <1>2, OrderInvHolds, BoundsHold, OrdersKeepTheCounter, PTL DEF Spec, WarehouseSpec

-----------------------------------------------------------------------------
(* Requests that follow one another: what a request read still holds when   *)
(* it commits.                                                              *)
OneWorker == \A v, w \in Workers : v = w

Fresh(r) ==
  /\ r.op = "complete" => /\ status[r.order] = "DRAFT"
                          /\ \A l \in OrderLines(r.order) : r.quantities[l] = ordered[l]
  /\ r.op = "edit" => /\ status[LineOrder[r.line]] \in {"DRAFT", "UNCONFIRMED"}
                      /\ r.allocate <=> status[LineOrder[r.line]] = "UNCONFIRMED"
                      /\ r.old = ordered[r.line]
  /\ r.op = "fulfill" => r.seen = fulfilled[r.line]
  /\ r.op = "approve" => fulfillment[r.target].status = "WAITING"
  /\ r.op = "cancel" => /\ fulfillment[r.target].status \in {"WAITING", "FULFILLED"}
                        /\ r.warehouse = NoWarehouse <=> fulfillment[r.target].status = "WAITING"

RequestsFresh == \A w \in Workers : Fresh(request[w])

(* The units of a line that have left, and those that wait for approval.    *)
Gone(l) == Carried(fulfillment, {l}, {"FULFILLED"})
Waiting(l) == Carried(fulfillment, {l}, {"WAITING"})

(* What the status of an order says of its line.                            *)
Shows(st, gone, total) ==
  /\ st \in {"DRAFT", "UNCONFIRMED", "UNFULFILLED"} => gone = 0
  /\ st = "PARTIALLY_FULFILLED" => 0 < gone /\ gone < total
  /\ st = "FULFILLED" => gone >= total

LineBooks(l) ==
  /\ fulfilled[l] = Waiting(l) + Gone(l)
  /\ Shows(status[LineOrder[l]], Gone(l), ordered[l])

(* Where fulfillments need no approval.                                     *)
Held(l) == Total(allocation, RowsOfLines({l}))
LineHolds(l) ==
  /\ Waiting(l) = 0
  /\ Gone(l) <= ordered[l]
  /\ Held(l) <= ordered[l] - Gone(l)
  /\ status[LineOrder[l]] = "DRAFT" => Held(l) = 0

(* The units a row counts for.                                              *)
Weight(row, L, statuses) ==
  IF row.status \in statuses /\ row.line \in L THEN row.quantity ELSE 0
RowTable == [Fulfillments -> FulfillmentRow \cup {NotCreated}]
Statuses == {"WAITING", "FULFILLED", "CANCELED"}

LEMMA WeightType ==
  ASSUME NEW row \in FulfillmentRow \cup {NotCreated}, NEW L, NEW S \in SUBSET Statuses
  PROVE  Weight(row, L, S) \in Nat /\ (row = NotCreated => Weight(row, L, S) = 0)
<1>1. CASE row \in FulfillmentRow
  <2>1. row.quantity \in Nat /\ row # NotCreated
    BY <1>1, BoundAssumption DEF FulfillmentRow, NotCreated
  <2> QED BY <2>1 DEF Weight
<1>2. CASE row = NotCreated
  BY <1>2 DEF Weight, NotCreated, Statuses
<1> QED BY <1>1, <1>2

LEMMA CarriedWeights ==
  ASSUME NEW rows \in RowTable, NEW L, NEW S \in SUBSET Statuses
  PROVE  /\ Carried(rows, L, S) \in Nat
         /\ Carried(rows, L, S) = Total([f \in Fulfillments |-> Weight(rows[f], L, S)], Fulfillments)
<1> DEFINE units == [f \in Fulfillments |-> IF rows[f] = NotCreated THEN 0 ELSE rows[f].quantity]
           weights == [f \in Fulfillments |-> Weight(rows[f], L, S)]
           A == FulfillmentsOf(rows, L, S)
<1>1. Carried(rows, L, S) = Total(units, A)
  BY DEF Carried
<1>2. A \in SUBSET Fulfillments /\ IsFiniteSet(A) /\ IsFiniteSet(Fulfillments \ A)
  BY FulfillmentsAssumption, FS_Subset DEF FulfillmentsOf
<1>3. \A f \in Fulfillments : weights[f] \in Int /\ weights[f] \in Nat
  BY WeightType DEF RowTable
<1>4. \A f \in A : units[f] = weights[f]
  <2> SUFFICES ASSUME NEW f \in A PROVE units[f] = weights[f]
    OBVIOUS
  <2>1. f \in Fulfillments /\ rows[f].status \in S /\ rows[f].line \in L
    BY DEF FulfillmentsOf
  <2>2. rows[f] # NotCreated
    BY <2>1 DEF NotCreated, Statuses
  <2> QED BY <2>1, <2>2 DEF Weight
<1>5. \A f \in Fulfillments \ A : weights[f] = 0
  BY DEF FulfillmentsOf, Weight
<1> HIDE DEF units, weights, A
<1>6. Total(units, A) = Total(weights, A)
  BY <1>4, TotalSame
<1>7. Total(weights, Fulfillments \ A) = 0
  BY <1>5, TotalZero
<1>8. Total(weights, A \cup (Fulfillments \ A)) = Total(weights, A) + Total(weights, Fulfillments \ A)
  BY <1>2, <1>3, TotalSplit
<1>9. A \cup (Fulfillments \ A) = Fulfillments
  BY <1>2
<1>10. Total(weights, A) \in Nat
  BY <1>2, <1>3, TotalType
<1>11. Total(weights, Fulfillments) = Total(weights, A)
  <2>1. Total(weights, Fulfillments) = Total(weights, A) + 0
    BY <1>7, <1>8, <1>9
  <2> QED BY <1>10, <2>1
<1>12. Carried(rows, L, S) \in Nat /\ Carried(rows, L, S) = Total(weights, Fulfillments)
  BY <1>1, <1>6, <1>10, <1>11
<1> QED BY <1>12 DEF weights

(* One row is written.                                                      *)
LEMMA CarriedWritten ==
  ASSUME NEW rows \in RowTable, NEW f \in Fulfillments, NEW row \in FulfillmentRow,
         NEW L, NEW S \in SUBSET Statuses
  PROVE  Carried([rows EXCEPT ![f] = row], L, S)
           = Carried(rows, L, S) - Weight(rows[f], L, S) + Weight(row, L, S)
<1> DEFINE next == [rows EXCEPT ![f] = row]
           before == [g \in Fulfillments |-> Weight(rows[g], L, S)]
           after == [g \in Fulfillments |-> Weight(next[g], L, S)]
<1>1. next \in RowTable /\ next[f] = row /\ \A g \in Fulfillments : g # f => next[g] = rows[g]
  BY DEF RowTable
<1> HIDE DEF next
<1>2. Carried(rows, L, S) = Total(before, Fulfillments) /\ Carried(rows, L, S) \in Nat
  BY CarriedWeights
<1>3. Carried(next, L, S) = Total(after, Fulfillments)
  BY <1>1, CarriedWeights
<1>4. \A g \in Fulfillments : /\ before[g] \in Nat /\ after[g] \in Nat
                              /\ g # f => after[g] = before[g]
  BY <1>1, WeightType DEF RowTable
<1>5. before[f] = Weight(rows[f], L, S) /\ after[f] = Weight(row, L, S)
  BY <1>1
<1> HIDE DEF before, after
<1>6. Total(after, Fulfillments) = Total(before, Fulfillments)
        - (IF before[f] > 0 THEN before[f] ELSE 0) + (IF after[f] > 0 THEN after[f] ELSE 0)
  <2>1. \A g \in Fulfillments : before[g] \in Int /\ after[g] \in Int /\ (g # f => after[g] = before[g])
    BY <1>4
  <2>2. IsFiniteSet(Fulfillments)
    BY FulfillmentsAssumption
  <2> QED BY <2>1, <2>2, TotalOneChanged
<1>7. before[f] \in Nat /\ after[f] \in Nat
  BY <1>4
<1>8. Total(after, Fulfillments) = Total(before, Fulfillments) - before[f] + after[f]
  BY <1>2, <1>6, <1>7
<1> QED BY <1>2, <1>3, <1>5, <1>8 DEF next

(* The units that are not canceled wait or have left.                       *)
LEMMA CarriedSplit ==
  ASSUME NEW rows \in RowTable, NEW L
  PROVE  Carried(rows, L, {"WAITING", "FULFILLED"})
           = Carried(rows, L, {"WAITING"}) + Carried(rows, L, {"FULFILLED"})
<1> DEFINE units == [f \in Fulfillments |-> IF rows[f] = NotCreated THEN 0 ELSE rows[f].quantity]
           A == FulfillmentsOf(rows, L, {"WAITING"})
           B == FulfillmentsOf(rows, L, {"FULFILLED"})
<1>1. FulfillmentsOf(rows, L, {"WAITING", "FULFILLED"}) = A \cup B /\ A \cap B = {}
  BY DEF FulfillmentsOf
<1>2. IsFiniteSet(A) /\ IsFiniteSet(B) /\ A \cup B \in SUBSET Fulfillments
  BY FulfillmentsAssumption, FS_Subset DEF FulfillmentsOf
<1>3. \A f \in Fulfillments : units[f] \in Int
  BY BoundAssumption DEF RowTable, FulfillmentRow, NotCreated
<1> HIDE DEF units, A, B
<1>4. Total(units, A \cup B) = Total(units, A) + Total(units, B)
  BY <1>1, <1>2, <1>3, TotalSplit
<1> QED BY <1>1, <1>4 DEF Carried, units, A, B

-----------------------------------------------------------------------------
(* A step of the only worker, and what it can have in memory.               *)
LEMMA FreshHolds == ASSUME OneWorker PROVE Spec => []RequestsFresh
<1>1. Init => RequestsFresh
  BY DEF Init, RequestsFresh, Fresh, Idle
<1>2. OrderInv /\ RequestsFresh /\ [Next]_allVars => RequestsFresh'
  <2> SUFFICES ASSUME OrderInv, RequestsFresh, [Next]_allVars PROVE RequestsFresh'
    OBVIOUS
  <2>1. CASE StaffSetsQuantity \/ UNCHANGED allVars
    BY <2>1 DEF StaffSetsQuantity, RequestsFresh, Fresh, orderVars, allVars
  <2>2. ASSUME NEW w \in Workers, CommitRequest(w) PROVE RequestsFresh'
    <3>1. Finish(w)
      BY <2>2 DEF CommitRequest, draft_order_complete, change_order_line_quantity, order_confirm,
         create_fulfillments, approve_fulfillment, cancel_fulfillment, cancel_order, RequestFails
    <3>2. \A v \in Workers : request'[v] = Idle
      BY <3>1 DEF OneWorker, Finish, OrderInv, RequestsOK
    <3> QED BY <3>2 DEF RequestsFresh, Fresh, Idle
  <2>3. ASSUME NEW w \in Workers, NEW r, Fresh(r), Validate(w, r) PROVE RequestsFresh'
    <3>1. \A v \in Workers : request'[v] = r
      BY <2>3 DEF OneWorker, Validate, OrderInv, RequestsOK
    <3> QED BY <2>3, <3>1 DEF RequestsFresh, Fresh, Validate, orderVars
  <2>4. ASSUME NEW w \in Workers, ValidateRequest(w) PROVE RequestsFresh'
    <3>1. ASSUME NEW o \in Orders, draft_order_complete_validate(w, o) PROVE RequestsFresh'
      <4>1. PICK r : r = [op |-> "complete", order |-> o, quantities |-> [l \in OrderLines(o) |-> ordered[l]]]
        OBVIOUS
      <4>2. Fresh(r)
        BY <3>1, <4>1 DEF Fresh, draft_order_complete_validate
      <4> QED BY <2>3, <3>1, <4>1, <4>2 DEF draft_order_complete_validate
    <3>2. ASSUME NEW o \in Orders, order_confirm_get_instance(w, o) PROVE RequestsFresh'
      <4>1. PICK r : r = [op |-> "confirm", order |-> o]
        OBVIOUS
      <4> QED BY <2>3, <3>2, <4>1 DEF order_confirm_get_instance, Fresh
    <3>3. ASSUME NEW l \in Lines, NEW q \in 1 .. MaxNeed, order_line_update_clean_input(w, l, q)
          PROVE  RequestsFresh'
      <4>1. PICK r : r = [op |-> "edit", line |-> l, old |-> ordered[l], new |-> q,
                          allocate |-> status[LineOrder[l]] = "UNCONFIRMED"]
        OBVIOUS
      <4>2. Fresh(r)
        BY <3>3, <4>1 DEF Fresh, order_line_update_clean_input
      <4> QED BY <2>3, <3>3, <4>1, <4>2 DEF order_line_update_clean_input
    <3>4. ASSUME NEW l \in Lines, NEW q \in 1 .. MaxNeed, NEW warehouse \in Warehouses,
                 NEW exceed \in BOOLEAN, order_fulfill_clean_input(w, l, q, warehouse, exceed)
          PROVE  RequestsFresh'
      <4>1. PICK r : r = [op |-> "fulfill", line |-> l, quantity |-> q, warehouse |-> warehouse,
                          exceed |-> exceed, seen |-> fulfilled[l]]
        OBVIOUS
      <4> QED BY <2>3, <3>4, <4>1 DEF order_fulfill_clean_input, Fresh
    <3>5. ASSUME NEW f \in Fulfillments, NEW exceed \in BOOLEAN, fulfillment_approve_clean_input(w, f, exceed)
          PROVE  RequestsFresh'
      <4>1. PICK r : r = [op |-> "approve", target |-> f, exceed |-> exceed]
        OBVIOUS
      <4> QED BY <2>3, <3>5, <4>1 DEF fulfillment_approve_clean_input, Fresh
    <3>6. ASSUME NEW f \in Fulfillments, NEW warehouse \in Warehouses,
                 fulfillment_cancel_validate(w, f, warehouse)
          PROVE  RequestsFresh'
      <4>1. PICK r : r = [op |-> "cancel", target |-> f, warehouse |->
                            IF fulfillment[f].status = "WAITING" THEN NoWarehouse ELSE warehouse]
        OBVIOUS
      <4>2. warehouse # NoWarehouse
        BY WarehousesAssumption DEF NoWarehouse
      <4>3. Fresh(r)
        BY <3>6, <4>1, <4>2 DEF Fresh, fulfillment_cancel_validate
      <4> QED BY <2>3, <3>6, <4>1, <4>3 DEF fulfillment_cancel_validate
    <3>7. ASSUME NEW o \in Orders, order_cancel_clean(w, o) PROVE RequestsFresh'
      <4>1. PICK r : r = [op |-> "cancel_order", order |-> o, status |-> "CANCELED"]
        OBVIOUS
      <4> QED BY <2>3, <3>7, <4>1 DEF order_cancel_clean, Fresh
    <3>8. ASSUME NEW o \in Orders, expire_orders_read(w, o) PROVE RequestsFresh'
      <4>1. PICK r : r = [op |-> "cancel_order", order |-> o, status |-> "EXPIRED"]
        OBVIOUS
      <4> QED BY <2>3, <3>8, <4>1 DEF expire_orders_read, Fresh
    <3> QED BY <2>4, <3>1, <3>2, <3>3, <3>4, <3>5, <3>6, <3>7, <3>8 DEF ValidateRequest
  <2> QED BY <2>1, <2>2, <2>4 DEF Next
<1> QED BY <1>1, <1>2, OrderInvHolds, PTL DEF Spec

-----------------------------------------------------------------------------
(* The rows of a line, and what its order says of them.                     *)
Books == \A l \in Lines : LineBooks(l)

LEMMA LineSums ==
  ASSUME OrdersTyped, NEW l \in Lines
  PROVE  /\ Gone(l) \in Nat /\ Waiting(l) \in Nat
         /\ ordered[l] \in Nat \ {0} /\ Total(ordered, {l}) = ordered[l]
         /\ fulfilled[l] \in Int
<1>1. fulfillment \in RowTable
  BY DEF OrdersTyped, RowTable
<1>2. ordered[l] \in Nat \ {0} /\ fulfilled[l] \in Int
  BY BoundAssumption DEF OrdersTyped
<1>3. Total(ordered, {l}) = ordered[l]
  BY <1>2, TotalOne
<1> QED BY <1>1, <1>2, <1>3, CarriedWeights DEF Gone, Waiting, Statuses

LEMMA RowMoves ==
  ASSUME OrdersTyped, NEW l \in Lines, NEW f \in Fulfillments, NEW row \in FulfillmentRow, row.line = l,
         fulfillment[f] = NotCreated \/ fulfillment[f].line = l,
         fulfillment' = [fulfillment EXCEPT ![f] = row], NEW m \in Lines
  PROVE  IF m = l
         THEN /\ Gone(m)' = Gone(m) - Weight(fulfillment[f], {l}, {"FULFILLED"})
                                    + Weight(row, {l}, {"FULFILLED"})
              /\ Waiting(m)' = Waiting(m) - Weight(fulfillment[f], {l}, {"WAITING"})
                                          + Weight(row, {l}, {"WAITING"})
         ELSE Gone(m)' = Gone(m) /\ Waiting(m)' = Waiting(m)
<1>1. fulfillment \in RowTable
  BY DEF OrdersTyped, RowTable
<1>2. {"FULFILLED"} \in SUBSET Statuses /\ {"WAITING"} \in SUBSET Statuses
  BY DEF Statuses
<1>3. ASSUME NEW S \in SUBSET Statuses
      PROVE  Carried(fulfillment', {m}, S)
               = Carried(fulfillment, {m}, S) - Weight(fulfillment[f], {m}, S) + Weight(row, {m}, S)
  BY <1>1, CarriedWritten
<1>4. CASE m = l
  BY <1>2, <1>3, <1>4 DEF Gone, Waiting
<1>5. CASE m # l
  <2>1. ASSUME NEW S \in SUBSET Statuses
        PROVE  Weight(fulfillment[f], {m}, S) = 0 /\ Weight(row, {m}, S) = 0
    <3>1. fulfillment[f] \in FulfillmentRow \cup {NotCreated}
      BY <1>1 DEF RowTable
    <3> QED BY <1>5, <3>1, WeightType DEF Weight
  <2>2. ASSUME NEW S \in SUBSET Statuses PROVE Carried(fulfillment', {m}, S) = Carried(fulfillment, {m}, S)
    <3>1. Carried(fulfillment, {m}, S) \in Nat
      BY <1>1, CarriedWeights
    <3>2. Carried(fulfillment', {m}, S) = Carried(fulfillment, {m}, S) - 0 + 0
      BY <1>3, <2>1
    <3> QED BY <3>1, <3>2
  <2> QED BY <1>2, <1>5, <2>2 DEF Gone, Waiting
<1> QED BY <1>4, <1>5

(* update_order_status computes what the rows show.                         *)
LEMMA StatusIsShown ==
  ASSUME OrdersTyped, OrdersTyped', NEW l \in Lines, update_order_status(LineOrder[l]),
         ordered' = ordered, fulfilled'[l] = Waiting(l)' + Gone(l)'
  PROVE  /\ Shows(status'[LineOrder[l]], Gone(l)', ordered'[l])
         /\ status'[LineOrder[l]] # "DRAFT"
         /\ \A m \in Lines : m # l => status'[LineOrder[m]] = status[LineOrder[m]]
<1>1. OrderLines(LineOrder[l]) = {l} /\ LineOrder[l] \in Orders
  BY OrderSets
<1>2. PICK g, wt, n : g = Gone(l)' /\ wt = Waiting(l)' /\ n = ordered[l]
  OBVIOUS
<1>3. g \in Nat /\ wt \in Nat
  <2>1. fulfillment' \in RowTable
    BY DEF OrdersTyped, RowTable
  <2> QED BY <1>2, <2>1, CarriedWeights DEF Gone, Waiting, Statuses
<1>4. n \in Nat \ {0} /\ Total(ordered, {l}) = n
  BY <1>2, LineSums
<1>5. fulfilled'[l] \in Int /\ fulfilled'[l] = wt + g
  BY <1>2, <1>3
<1>6. Total(fulfilled', {l}) = wt + g
  BY <1>3, <1>5, TotalOne
<1>7. Carried(fulfillment', {l}, {"WAITING"}) = wt
  BY <1>2 DEF Waiting
<1>8. PICK st : st = status'[LineOrder[l]]
  OBVIOUS
<1>9. st = determine_order_status(LineOrder[l], fulfilled', fulfillment')
  BY <1>1, <1>8 DEF update_order_status, OrdersTyped
<1>10. st = IF n = 0 THEN status[LineOrder[l]]
            ELSE IF (wt + g) - wt <= 0 THEN "UNFULFILLED"
            ELSE IF (wt + g) - wt < n THEN "PARTIALLY_FULFILLED"
            ELSE "FULFILLED"
  BY <1>1, <1>4, <1>6, <1>7, <1>9 DEF determine_order_status
<1>11. Shows(st, g, n) /\ st # "DRAFT"
  BY <1>3, <1>4, <1>10 DEF Shows
<1>12. ASSUME NEW m \in Lines, m # l PROVE status'[LineOrder[m]] = status[LineOrder[m]]
  <2>1. LineOrder[m] # LineOrder[l] /\ LineOrder[m] \in Orders
    BY <1>12, OneLineOrders, OrderSets
  <2> QED BY <2>1 DEF update_order_status, OrdersTyped
<1> QED BY <1>2, <1>8, <1>11, <1>12

(* The other lines are left alone.                                          *)
Others(l) == \A m \in Lines : m # l =>
  /\ status'[LineOrder[m]] = status[LineOrder[m]]
  /\ ordered'[m] = ordered[m] /\ fulfilled'[m] = fulfilled[m]
  /\ Gone(m)' = Gone(m) /\ Waiting(m)' = Waiting(m)

LEMMA BooksOfOneLine ==
  ASSUME Books, NEW l \in Lines, Others(l), LineBooks(l)'
  PROVE  Books'
<1> SUFFICES ASSUME NEW m \in Lines PROVE LineBooks(m)'
  BY DEF Books
<1>1. CASE m = l
  BY <1>1
<1>2. CASE m # l
  BY <1>2 DEF Books, LineBooks, Others
<1> QED BY <1>1, <1>2

(* A fulfillment is created.                                                *)
LEMMA CreateEffect ==
  ASSUME OrdersTyped, OrdersTyped', RequestsOK, RequestsFresh, Books,
         NEW w \in Workers, create_fulfillments(w),
         NEW l, NEW q, l = request[w].line, q = request[w].quantity
  PROVE  /\ l \in Lines /\ q \in Nat \ {0} /\ q <= ordered[l] - fulfilled[l]
         /\ Gone(l)' = Gone(l) + (IF FulfillmentAutoApprove THEN q ELSE 0)
         /\ Waiting(l)' = Waiting(l) + (IF FulfillmentAutoApprove THEN 0 ELSE q)
         /\ ordered' = ordered /\ fulfilled'[l] = fulfilled[l] + q
         /\ ~FulfillmentAutoApprove => status' = status
         /\ Others(l) /\ LineBooks(l)'
<1>1. PICK r : r = request[w]
  OBVIOUS
<1>2. /\ r.op = "fulfill" /\ fulfilled' = [fulfilled EXCEPT ![r.line] = r.seen + r.quantity]
      /\ ordered' = ordered /\ r.quantity <= ordered[r.line] - fulfilled[r.line]
      /\ IF FulfillmentAutoApprove THEN update_order_status(LineOrder[r.line]) ELSE UNCHANGED status
  BY <1>1 DEF create_fulfillments, create_fulfillment_lines
<1>3. /\ r.line \in Lines /\ r.quantity \in 1 .. MaxNeed /\ r.warehouse \in Warehouses
      /\ r.seen = fulfilled[r.line]
  BY <1>1, <1>2, RequestContents DEF RequestsOK, RequestsFresh, Fresh
<1>4. l \in Lines /\ l = r.line /\ q = r.quantity /\ q \in Nat \ {0}
  BY <1>1, <1>3, BoundAssumption
<1>r. PICK row : row = [status |-> IF FulfillmentAutoApprove THEN "FULFILLED" ELSE "WAITING",
                        line |-> r.line, quantity |-> r.quantity,
                        warehouse |-> IF <<LineVariant[r.line], r.warehouse>> \in stockRows
                                      THEN r.warehouse ELSE NoWarehouse]
  OBVIOUS
<1>5. PICK f \in Fulfillments :
        fulfillment[f] = NotCreated /\ fulfillment' = [fulfillment EXCEPT ![f] = row]
  BY <1>1, <1>r DEF create_fulfillments
<1>6. row \in FulfillmentRow /\ row.line = l
  BY <1>r, <1>3, <1>4 DEF FulfillmentRow
<1>7. /\ Weight(row, {l}, {"FULFILLED"}) = IF FulfillmentAutoApprove THEN q ELSE 0
      /\ Weight(row, {l}, {"WAITING"}) = IF FulfillmentAutoApprove THEN 0 ELSE q
      /\ \A S \in SUBSET Statuses : Weight(fulfillment[f], {l}, S) = 0
  BY <1>r, <1>4, <1>5, WeightType DEF Weight
<1>8. \A m \in Lines : IF m = l
        THEN /\ Gone(m)' = Gone(m) - Weight(fulfillment[f], {l}, {"FULFILLED"})
                                   + Weight(row, {l}, {"FULFILLED"})
             /\ Waiting(m)' = Waiting(m) - Weight(fulfillment[f], {l}, {"WAITING"})
                                         + Weight(row, {l}, {"WAITING"})
        ELSE Gone(m)' = Gone(m) /\ Waiting(m)' = Waiting(m)
  BY <1>4, <1>5, <1>6, RowMoves
<1>9. /\ Gone(l) \in Nat /\ Waiting(l) \in Nat /\ ordered[l] \in Nat /\ fulfilled[l] \in Int
      /\ fulfilled[l] = Waiting(l) + Gone(l)
  BY <1>4, LineSums DEF Books, LineBooks
<1>10. /\ Gone(l)' = Gone(l) + (IF FulfillmentAutoApprove THEN q ELSE 0)
       /\ Waiting(l)' = Waiting(l) + (IF FulfillmentAutoApprove THEN 0 ELSE q)
  <2>1. /\ Gone(l)' = Gone(l) - 0 + (IF FulfillmentAutoApprove THEN q ELSE 0)
        /\ Waiting(l)' = Waiting(l) - 0 + (IF FulfillmentAutoApprove THEN 0 ELSE q)
    BY <1>4, <1>7, <1>8 DEF Statuses
  <2> QED BY <1>4, <1>9, <2>1
<1>11. fulfilled'[l] = fulfilled[l] + q /\ \A m \in Lines : m # l => fulfilled'[m] = fulfilled[m]
  BY <1>2, <1>3, <1>4 DEF OrdersTyped
<1>12. fulfilled'[l] = Waiting(l)' + Gone(l)'
  BY <1>4, <1>9, <1>10, <1>11
<1>13. CASE FulfillmentAutoApprove
  <2>1. /\ Shows(status'[LineOrder[l]], Gone(l)', ordered'[l])
        /\ \A m \in Lines : m # l => status'[LineOrder[m]] = status[LineOrder[m]]
    BY <1>2, <1>4, <1>12, <1>13, StatusIsShown
  <2> QED BY <1>2, <1>4, <1>8, <1>10, <1>11, <1>12, <1>13, <2>1 DEF Others, LineBooks
<1>14. CASE ~FulfillmentAutoApprove
  <2>1. Gone(l)' = Gone(l) /\ status' = status
    BY <1>2, <1>9, <1>10, <1>14
  <2>2. Shows(status'[LineOrder[l]], Gone(l)', ordered'[l])
    BY <1>2, <1>4, <2>1 DEF Books, LineBooks
  <2> QED BY <1>2, <1>4, <1>8, <1>10, <1>11, <1>12, <1>14, <2>1, <2>2 DEF Others, LineBooks
<1> QED BY <1>13, <1>14

(* A fulfillment is approved or canceled.                                   *)
LEMMA TargetEffect ==
  ASSUME OrdersTyped, OrdersTyped', RequestsOK, RequestsFresh, Books,
         NEW w \in Workers, approve_fulfillment(w) \/ cancel_fulfillment(w),
         NEW l, NEW q, l = fulfillment[request[w].target].line, q = fulfillment[request[w].target].quantity
  PROVE  LET st == fulfillment[request[w].target].status
         IN /\ l \in Lines /\ q \in Nat \ {0} /\ ordered' = ordered /\ st \in {"WAITING", "FULFILLED"}
            /\ request[w].op = "approve" => /\ st = "WAITING"
                                            /\ Gone(l)' = Gone(l) + q /\ Waiting(l)' = Waiting(l) - q
            /\ request[w].op = "cancel" =>
                 /\ Gone(l)' = Gone(l) - (IF st = "FULFILLED" THEN q ELSE 0)
                 /\ Waiting(l)' = Waiting(l) - (IF st = "WAITING" THEN q ELSE 0)
            /\ request[w].op \in {"approve", "cancel"}
            /\ status'[LineOrder[l]] # "DRAFT" /\ Others(l) /\ LineBooks(l)'
<1>1. PICK r : r = request[w]
  OBVIOUS
<1>2. r.op \in {"approve", "cancel"}
  BY <1>1 DEF approve_fulfillment, cancel_fulfillment
<1>3. PICK row : row = fulfillment[r.target]
  OBVIOUS
<1>4. r.target \in Fulfillments /\ row \in FulfillmentRow
  BY <1>1, <1>2, <1>3, RequestContents DEF RequestsOK
<1>5. l = row.line /\ q = row.quantity /\ l \in Lines /\ q \in Nat \ {0}
  BY <1>1, <1>3, <1>4, BoundAssumption DEF FulfillmentRow
<1>6. row.status \in {"WAITING", "FULFILLED"} /\ (r.op = "approve" => row.status = "WAITING")
  BY <1>1, <1>2, <1>3 DEF RequestsFresh, Fresh
<1>7. PICK new : new = IF r.op = "approve" THEN "FULFILLED" ELSE "CANCELED"
  OBVIOUS
<1>8. /\ fulfillment' = [fulfillment EXCEPT ![r.target].status = new]
      /\ ordered' = ordered /\ update_order_status(LineOrder[l])
      /\ IF r.op = "approve" THEN fulfilled' = fulfilled
         ELSE fulfilled' = [fulfilled EXCEPT ![l] = @ - q]
  BY <1>1, <1>3, <1>5, <1>7 DEF approve_fulfillment, cancel_fulfillment
<1>9. PICK next : next = [row EXCEPT !.status = new]
  OBVIOUS
<1>10. next \in FulfillmentRow /\ next.line = l /\ next.quantity = q /\ next.status = new
  BY <1>4, <1>5, <1>7, <1>9 DEF FulfillmentRow
<1>11. fulfillment' = [fulfillment EXCEPT ![r.target] = next]
  BY <1>3, <1>4, <1>8, <1>9 DEF OrdersTyped
<1>12. /\ Weight(row, {l}, {"FULFILLED"}) = (IF row.status = "FULFILLED" THEN q ELSE 0)
       /\ Weight(row, {l}, {"WAITING"}) = (IF row.status = "WAITING" THEN q ELSE 0)
       /\ Weight(next, {l}, {"FULFILLED"}) = (IF r.op = "approve" THEN q ELSE 0)
       /\ Weight(next, {l}, {"WAITING"}) = 0
  BY <1>5, <1>7, <1>10 DEF Weight
<1>13. \A m \in Lines : IF m = l
         THEN /\ Gone(m)' = Gone(m) - Weight(row, {l}, {"FULFILLED"})
                                    + Weight(next, {l}, {"FULFILLED"})
              /\ Waiting(m)' = Waiting(m) - Weight(row, {l}, {"WAITING"})
                                          + Weight(next, {l}, {"WAITING"})
         ELSE Gone(m)' = Gone(m) /\ Waiting(m)' = Waiting(m)
  <2>1. l \in Lines /\ next.line = l /\ next \in FulfillmentRow /\ r.target \in Fulfillments
    BY <1>4, <1>5, <1>10
  <2>2. fulfillment[r.target].line = l
    BY <1>3, <1>5
  <2>3. ASSUME NEW m \in Lines
        PROVE  IF m = l
               THEN /\ Gone(m)' = Gone(m) - Weight(fulfillment[r.target], {l}, {"FULFILLED"})
                                          + Weight(next, {l}, {"FULFILLED"})
                    /\ Waiting(m)' = Waiting(m) - Weight(fulfillment[r.target], {l}, {"WAITING"})
                                                + Weight(next, {l}, {"WAITING"})
               ELSE Gone(m)' = Gone(m) /\ Waiting(m)' = Waiting(m)
    BY <1>11, <2>1, <2>2, RowMoves
  <2> QED BY <1>3, <2>3
<1>14. /\ Gone(l) \in Nat /\ Waiting(l) \in Nat /\ ordered[l] \in Nat /\ fulfilled[l] \in Int
       /\ fulfilled[l] = Waiting(l) + Gone(l)
  BY <1>5, LineSums DEF Books, LineBooks
<1>15. /\ Gone(l)' = Gone(l) - (IF row.status = "FULFILLED" THEN q ELSE 0) + (IF r.op = "approve" THEN q ELSE 0)
       /\ Waiting(l)' = Waiting(l) - (IF row.status = "WAITING" THEN q ELSE 0) + 0
  BY <1>5, <1>12, <1>13
<1>16. /\ fulfilled'[l] = IF r.op = "approve" THEN fulfilled[l] ELSE fulfilled[l] - q
       /\ \A m \in Lines : m # l => fulfilled'[m] = fulfilled[m]
  BY <1>5, <1>8 DEF OrdersTyped
<1>17. PICK g, wt, g2, w2 : g = Gone(l) /\ wt = Waiting(l) /\ g2 = Gone(l)' /\ w2 = Waiting(l)'
  OBVIOUS
<1>18. /\ r.op = "approve" => g2 = g + q /\ w2 = wt - q
       /\ r.op = "cancel" => /\ g2 = g - (IF row.status = "FULFILLED" THEN q ELSE 0)
                             /\ w2 = wt - (IF row.status = "WAITING" THEN q ELSE 0)
  BY <1>5, <1>6, <1>14, <1>15, <1>17
<1>19. fulfilled'[l] = w2 + g2
  BY <1>2, <1>5, <1>6, <1>14, <1>16, <1>17, <1>18
<1>20. /\ Shows(status'[LineOrder[l]], Gone(l)', ordered'[l]) /\ status'[LineOrder[l]] # "DRAFT"
       /\ \A m \in Lines : m # l => status'[LineOrder[m]] = status[LineOrder[m]]
  BY <1>5, <1>8, <1>17, <1>19, StatusIsShown
<1>21. Others(l) /\ LineBooks(l)'
  BY <1>5, <1>8, <1>13, <1>16, <1>17, <1>19, <1>20 DEF Others, LineBooks
<1> QED BY <1>1, <1>2, <1>3, <1>5, <1>6, <1>8, <1>17, <1>18, <1>20, <1>21

(* Every transaction of the only worker keeps the books.                    *)
LEMMA CommitBooks ==
  ASSUME OrderInv, OrderInv', RequestsFresh, Books, NEW w \in Workers, CommitRequest(w)
  PROVE  Books'
<1>o. OrdersTyped /\ OrdersTyped' /\ RequestsOK
  BY DEF OrderInv
<1>1. PICK r : r = request[w]
  OBVIOUS
<1>2. RequestOK(r) /\ Fresh(r)
  BY <1>1, <1>o DEF RequestsOK, RequestsFresh
<1>u. ASSUME fulfillment' = fulfillment, NEW m \in Lines PROVE Gone(m)' = Gone(m) /\ Waiting(m)' = Waiting(m)
  BY <1>u DEF Gone, Waiting
(* A request that only sets the status of an order, with nothing shipped    *)
(* or to a status that shows nothing.                                       *)
<1>s. ASSUME NEW l \in Lines, NEW st, status' = [status EXCEPT ![LineOrder[l]] = st],
             fulfillment' = fulfillment, ordered' = ordered, fulfilled' = fulfilled,
             Shows(st, Gone(l), ordered[l])
      PROVE  Books'
  <2>1. status'[LineOrder[l]] = st /\ \A m \in Lines : m # l => status'[LineOrder[m]] = status[LineOrder[m]]
    BY <1>s, <1>o, OneLineOrders, OrderSets DEF OrdersTyped
  <2>2. Others(l)
    BY <1>s, <1>u, <2>1 DEF Others
  <2>3. LineBooks(l)'
    BY <1>s, <1>u, <2>1 DEF LineBooks, Books
  <2> QED BY <2>2, <2>3, BooksOfOneLine
<1>3. CASE draft_order_complete(w)
  <2>1. /\ r.op = "complete" /\ UNCHANGED <<ordered, fulfilled, fulfillment>>
        /\ status' = [status EXCEPT ![r.order] = IF AutoConfirm THEN "UNFULFILLED" ELSE "UNCONFIRMED"]
    BY <1>1, <1>3 DEF draft_order_complete
  <2>2. r.order \in Orders /\ status[r.order] = "DRAFT"
    BY <1>2, <2>1, RequestContents DEF Fresh
  <2>3. PICK l \in Lines : LineOrder[l] = r.order
    BY <2>2, OrderSets
  <2>4. Gone(l) = 0
    BY <2>2, <2>3 DEF Books, LineBooks, Shows
  <2>5. PICK st : st = IF AutoConfirm THEN "UNFULFILLED" ELSE "UNCONFIRMED"
    OBVIOUS
  <2>6. Shows(st, Gone(l), ordered[l])
    BY <2>4, <2>5 DEF Shows
  <2> QED BY <1>s, <2>1, <2>3, <2>5, <2>6
<1>4. CASE change_order_line_quantity(w)
  <2>1. /\ r.op = "edit" /\ ordered' = [ordered EXCEPT ![r.line] = r.new]
        /\ UNCHANGED <<status, fulfilled, fulfillment>>
    BY <1>1, <1>4 DEF change_order_line_quantity
  <2>2. r.line \in Lines /\ status[LineOrder[r.line]] \in {"DRAFT", "UNCONFIRMED"}
    BY <1>2, <2>1, RequestContents DEF Fresh
  <2>3. Others(r.line)
    BY <1>o, <1>u, <2>1, <2>2 DEF Others, OrdersTyped
  <2>4. Shows(status'[LineOrder[r.line]], Gone(r.line)', ordered'[r.line])
    BY <1>u, <2>1, <2>2 DEF Books, LineBooks, Shows
  <2>5. LineBooks(r.line)'
    BY <1>u, <2>1, <2>2, <2>4 DEF LineBooks, Books
  <2> QED BY <2>2, <2>3, <2>5, BooksOfOneLine
<1>5. CASE order_confirm(w)
  <2>1. /\ r.op = "confirm" /\ UNCHANGED <<ordered, fulfilled, fulfillment>>
        /\ update_order_status(r.order)
    BY <1>1, <1>5 DEF order_confirm
  <2>2. PICK l \in Lines : LineOrder[l] = r.order
    BY <1>2, <2>1, RequestContents, OrderSets
  <2>3. fulfilled'[l] = Waiting(l)' + Gone(l)'
    BY <1>u, <2>1, <2>2 DEF Books, LineBooks
  <2>4. /\ Shows(status'[LineOrder[l]], Gone(l)', ordered'[l])
        /\ \A m \in Lines : m # l => status'[LineOrder[m]] = status[LineOrder[m]]
    BY <1>o, <2>1, <2>2, <2>3, StatusIsShown
  <2>5. Others(l)
    BY <1>u, <2>1, <2>4 DEF Others
  <2>6. LineBooks(l)'
    BY <2>3, <2>4 DEF LineBooks
  <2> QED BY <2>5, <2>6, BooksOfOneLine
<1>6. CASE create_fulfillments(w)
  <2>1. PICK l, q : l = request[w].line /\ q = request[w].quantity
    OBVIOUS
  <2>2. l \in Lines /\ Others(l) /\ LineBooks(l)'
    BY <1>o, <1>6, <2>1, CreateEffect
  <2> QED BY <2>2, BooksOfOneLine
<1>7. CASE approve_fulfillment(w) \/ cancel_fulfillment(w)
  <2>1. PICK l, q : /\ l = fulfillment[request[w].target].line
                    /\ q = fulfillment[request[w].target].quantity
    OBVIOUS
  <2>2. l \in Lines /\ Others(l) /\ LineBooks(l)'
    BY <1>o, <1>7, <2>1, TargetEffect
  <2> QED BY <2>2, BooksOfOneLine
<1>8. CASE cancel_order(w)
  <2>1. /\ r.op = "cancel_order" /\ UNCHANGED <<ordered, fulfilled, fulfillment>>
        /\ status' = [status EXCEPT ![r.order] = r.status]
    BY <1>1, <1>8 DEF cancel_order
  <2>2. r.order \in Orders /\ r.status \in {"CANCELED", "EXPIRED"}
    BY <1>2, <2>1, RequestContents
  <2>3. PICK l \in Lines : LineOrder[l] = r.order
    BY <2>2, OrderSets
  <2>4. Shows(r.status, Gone(l), ordered[l])
    BY <2>2 DEF Shows
  <2> QED BY <1>s, <2>1, <2>3, <2>4
<1>9. CASE RequestFails(w)
  BY <1>u, <1>9 DEF RequestFails, Books, LineBooks, orderVars
<1> QED BY <1>3, <1>4, <1>5, <1>6, <1>7, <1>8, <1>9 DEF CommitRequest

LEMMA NextBooks == OrderInv /\ OrderInv' /\ RequestsFresh /\ Books /\ [Next]_allVars => Books'
<1> SUFFICES ASSUME OrderInv, OrderInv', RequestsFresh, Books, [Next]_allVars PROVE Books'
  OBVIOUS
<1>1. CASE UNCHANGED orderVars
  BY <1>1 DEF Books, LineBooks, Gone, Waiting, orderVars
<1>2. ASSUME NEW w \in Workers, ValidateRequest(w) PROVE UNCHANGED orderVars
  BY <1>2 DEF ValidateRequest, draft_order_complete_validate, order_confirm_get_instance,
     order_line_update_clean_input, order_fulfill_clean_input, fulfillment_approve_clean_input,
     fulfillment_cancel_validate, order_cancel_clean, expire_orders_read, Validate
<1>3. StaffSetsQuantity => UNCHANGED orderVars
  BY DEF StaffSetsQuantity
<1>4. UNCHANGED allVars => UNCHANGED orderVars
  BY DEF allVars
<1> QED BY <1>1, <1>2, <1>3, <1>4, CommitBooks DEF Next

LEMMA BooksHold == ASSUME OneWorker PROVE Spec => []Books
<1>1. Init => Books
  <2> SUFFICES ASSUME Init, NEW l \in Lines PROVE LineBooks(l)
    BY DEF Books
  <2>1. OrdersTyped
    BY InitOrders DEF OrderInv
  <2>2. ASSUME NEW S \in SUBSET Statuses PROVE Carried(fulfillment, {l}, S) = 0
    <3>1. FulfillmentsOf(fulfillment, {l}, S) = {}
      BY DEF Init, FulfillmentsOf, NotCreated, Statuses
    <3> QED BY <3>1, TotalZero DEF Carried
  <2>3. Gone(l) = 0 /\ Waiting(l) = 0
    BY <2>2 DEF Gone, Waiting, Statuses
  <2>4. fulfilled[l] = 0 /\ status[LineOrder[l]] = "DRAFT"
    BY OrderSets DEF Init
  <2> QED BY <2>3, <2>4 DEF LineBooks, Shows
<1> QED BY <1>1, NextBooks, FreshHolds, OrderInvHolds, PTL DEF Spec

(* Where requests follow one another, quantity_fulfilled counts the units   *)
(* of the fulfillments that are not canceled, after every transaction.      *)
THEOREM FulfilledIsCounted ==
  ASSUME OneWorker
  PROVE  Spec => []FulfilledCountsFulfillments
<1>1. OrderInv /\ Books => FulfilledCountsFulfillments
  BY CarriedSplit DEF OrderInv, OrdersTyped, RowTable, Books, LineBooks, Gone, Waiting, FulfilledCountsFulfillments
<1> QED BY <1>1, BooksHold, OrderInvHolds, PTL

(* And the status of an order that is being shipped says how much has left: *)
(* no transaction that ships, approves or takes back forgets to update it.  *)
THEOREM StatusFollowsShipments ==
  ASSUME OneWorker
  PROVE  Spec => []StatusShowsProgress
<1>1. OrderInv /\ Books => StatusShowsProgress
  <2> SUFFICES ASSUME OrderInv, Books, NEW o \in Orders
               PROVE  LET gone == Carried(fulfillment, OrderLines(o), {"FULFILLED"})
                          total == Total(ordered, OrderLines(o))
                      IN CASE status[o] = "UNFULFILLED" -> gone = 0
                           [] status[o] = "PARTIALLY_FULFILLED" -> 0 < gone /\ gone < total
                           [] status[o] = "FULFILLED" -> gone >= total
                           [] OTHER -> TRUE
    BY DEF StatusShowsProgress
  <2>1. PICK l \in Lines : LineOrder[l] = o /\ OrderLines(o) = {l}
    BY OrderSets
  <2>2. Total(ordered, {l}) = ordered[l]
    BY LineSums DEF OrderInv
  <2>3. Shows(status[o], Gone(l), ordered[l])
    BY <2>1 DEF Books, LineBooks
  <2> QED BY <2>1, <2>2, <2>3 DEF Shows, Gone
<1> QED BY <1>1, BooksHold, OrderInvHolds, PTL

-----------------------------------------------------------------------------
(* Where fulfillments need no approval: what a line holds in the stocks and *)
(* what has left are within what was ordered.  A draft holds nothing, which *)
(* is why completing it cannot allocate a second time.                      *)
Holds == \A l \in Lines : LineHolds(l)

LEMMA HoldsOfOneLine ==
  ASSUME Holds, NEW l \in Lines, Others(l), OthersHold(l), LineHolds(l)'
  PROVE  Holds'
<1> SUFFICES ASSUME NEW m \in Lines PROVE LineHolds(m)'
  BY DEF Holds
<1>1. CASE m = l
  BY <1>1
<1>2. CASE m # l
  <2>1. Held(m)' = Held(m)
    BY <1>2 DEF OthersHold, Held
  <2>2. /\ Gone(m)' = Gone(m) /\ Waiting(m)' = Waiting(m) /\ ordered'[m] = ordered[m]
        /\ status'[LineOrder[m]] = status[LineOrder[m]]
    BY <1>2 DEF Others
  <2> QED BY <2>1, <2>2 DEF Holds, LineHolds
<1> QED BY <1>1, <1>2

(* A request that writes no fulfillment, and one line or order at most.     *)
LEMMA NothingLeaves ==
  ASSUME OrdersTyped, NEW l \in Lines, UNCHANGED <<fulfilled, fulfillment>>,
         ordered' = ordered \/ \E n : ordered' = [ordered EXCEPT ![l] = n],
         status' = status \/ \E st : status' = [status EXCEPT ![LineOrder[l]] = st]
  PROVE  Others(l) /\ Gone(l)' = Gone(l) /\ Waiting(l)' = Waiting(l)
<1>1. \A m \in Lines : Gone(m)' = Gone(m) /\ Waiting(m)' = Waiting(m)
  BY DEF Gone, Waiting
<1>2. ASSUME NEW m \in Lines, m # l
      PROVE  ordered'[m] = ordered[m] /\ status'[LineOrder[m]] = status[LineOrder[m]]
  <2>1. ordered'[m] = ordered[m]
    BY <1>2 DEF OrdersTyped
  <2>2. LineOrder[m] # LineOrder[l] /\ LineOrder[m] \in Orders
    BY <1>2, OneLineOrders, OrderSets
  <2> QED BY <2>1, <2>2 DEF OrdersTyped
<1> QED BY <1>1, <1>2 DEF Others

(* What one line holds, as numbers.                                         *)
LEMMA LineNumbers ==
  ASSUME OrderInv, Holds, NEW l \in Lines
  PROVE  /\ Gone(l) \in Nat /\ Waiting(l) = 0 /\ Held(l) \in Nat /\ ordered[l] \in Nat \ {0}
         /\ Gone(l) <= ordered[l] /\ Held(l) <= ordered[l] - Gone(l)
         /\ status[LineOrder[l]] = "DRAFT" => Held(l) = 0
<1>1. OrdersTyped /\ TypeOK
  BY DEF OrderInv
<1> QED BY <1>1, LineSums, LineRows DEF Holds, LineHolds, Held

(* Every transaction of the only worker keeps a line within its order.      *)
LEMMA CommitHolds ==
  ASSUME FulfillmentAutoApprove = TRUE, OrderInv, OrderInv', RequestsFresh, Books, Books', Holds,
         NEW w \in Workers, CommitRequest(w)
  PROVE  Holds'
<1>o. OrdersTyped /\ OrdersTyped' /\ RequestsOK /\ TypeOK
  BY DEF OrderInv
<1>1. PICK r : r = request[w]
  OBVIOUS
<1>2. RequestOK(r) /\ Fresh(r)
  BY <1>1, <1>o DEF RequestsOK, RequestsFresh
<1>n. \A m \in Lines : Held(m)' \in Nat
  <2> SUFFICES ASSUME NEW m \in Lines PROVE Held(m)' \in Nat
    OBVIOUS
  <2>1. RowsOfLines({m}) \in SUBSET Rows
    BY <1>o, LineRows
  <2>2. \A k \in Rows : allocation'[k] \in Int
    BY DEF OrderInv, TypeOK, NoRow
  <2> QED BY <2>1, <2>2, TableSums DEF Held
<1>u. ASSUME UNCHANGED vars PROVE \A m \in Lines : OthersHold(m) /\ Held(m)' = Held(m)
  BY <1>u DEF vars, OthersHold, Held
<1>3. CASE draft_order_complete(w)
  <2>1. /\ r.op = "complete" /\ UNCHANGED <<ordered, fulfilled, fulfillment>>
        /\ status' = [status EXCEPT ![r.order] = IF AutoConfirm THEN "UNFULFILLED" ELSE "UNCONFIRMED"]
        /\ create_order(OrderLines(r.order), r.quantities, FALSE, ReservationsEnabled)
    BY <1>1, <1>3 DEF draft_order_complete
  <2>2. /\ r.order \in Orders /\ status[r.order] = "DRAFT"
        /\ r.quantities \in [OrderLines(r.order) -> 1 .. MaxNeed]
        /\ \A l \in OrderLines(r.order) : r.quantities[l] = ordered[l]
    BY <1>2, <2>1, RequestContents DEF Fresh
  <2>3. PICK l \in Lines : LineOrder[l] = r.order /\ OrderLines(r.order) = {l}
    BY <2>2, OrderSets
  <2>4. r.quantities \in [{l} -> Int] /\ r.quantities[l] = ordered[l]
    BY <2>2, <2>3
  <2>5. /\ Gone(l) \in Nat /\ Waiting(l) = 0 /\ Held(l) = 0 /\ ordered[l] \in Nat
        /\ Gone(l) = 0
    BY <2>2, <2>3, LineNumbers DEF Books, LineBooks, Shows
  <2>6. Held(l)' = ordered[l] /\ OthersHold(l)
    <3>1. allocate_stocks({l}, r.quantities, ReservationsEnabled)
      BY <2>1, <2>3 DEF create_order
    <3>2. Total(allocation, RowsOfLines({l})) = 0 /\ ReservationsEnabled \in BOOLEAN
      BY <2>5, SettingsAssumption DEF Held
    <3> QED BY <1>o, <2>4, <3>1, <3>2, HeldAllocated DEF Held
  <2>7. Others(l) /\ Gone(l)' = Gone(l) /\ Waiting(l)' = Waiting(l)
    BY <1>o, <2>1, <2>3, NothingLeaves
  <2>8. status'[LineOrder[l]] # "DRAFT"
    BY <1>o, <2>1, <2>2, <2>3 DEF OrdersTyped
  <2>9. LineHolds(l)'
    BY <2>1, <2>5, <2>6, <2>7, <2>8 DEF LineHolds
  <2> QED BY <2>6, <2>7, <2>9, HoldsOfOneLine
<1>4. CASE change_order_line_quantity(w)
  <2> DEFINE one(value) == [m \in {r.line} |-> value]
  <2>1. /\ r.op = "edit" /\ ordered' = [ordered EXCEPT ![r.line] = r.new]
        /\ UNCHANGED <<status, fulfilled, fulfillment>>
        /\ \/ r.allocate /\ r.old < r.new /\ increase_allocations({r.line}, one(r.new - r.old))
           \/ r.allocate /\ r.old > r.new /\ decrease_allocations({r.line}, one(r.old - r.new))
           \/ (~r.allocate \/ r.old = r.new) /\ UNCHANGED vars
    BY <1>1, <1>4 DEF change_order_line_quantity
  <2>2. PICK l, old, new : l = r.line /\ old = r.old /\ new = r.new
    OBVIOUS
  <2>3. /\ l \in Lines /\ old \in Nat /\ new \in Nat \ {0} /\ old = ordered[l]
        /\ r.allocate <=> status[LineOrder[l]] = "UNCONFIRMED"
        /\ status[LineOrder[l]] \in {"DRAFT", "UNCONFIRMED"}
    BY <1>2, <2>1, <2>2, RequestContents, BoundAssumption DEF Fresh
  <2>4. PICK h, h2 : h = Held(l) /\ h2 = Held(l)'
    OBVIOUS
  <2>5. /\ h \in Nat /\ Waiting(l) = 0 /\ h <= old /\ Gone(l) = 0
        /\ status[LineOrder[l]] = "DRAFT" => h = 0
    <3>1. Gone(l) = 0
      BY <2>3 DEF Books, LineBooks, Shows
    <3>2. /\ h \in Nat /\ Waiting(l) = 0 /\ h <= ordered[l] - Gone(l)
          /\ status[LineOrder[l]] = "DRAFT" => h = 0
      BY <2>3, <2>4, LineNumbers
    <3> QED BY <2>3, <3>1, <3>2
  <2>6. Others(l) /\ Gone(l)' = Gone(l) /\ Waiting(l)' = Waiting(l)
    BY <1>o, <2>1, <2>2, <2>3, NothingLeaves
  <2>7. ordered'[l] = new /\ status'[LineOrder[l]] = status[LineOrder[l]]
    BY <1>o, <2>1, <2>2, <2>3 DEF OrdersTyped
  <2>8. OthersHold(l) /\ h2 <= new /\ (status[LineOrder[l]] = "DRAFT" => h2 = 0)
    <3>1. CASE r.allocate /\ r.old < r.new /\ increase_allocations({r.line}, one(r.new - r.old))
      <4>1. PICK added : added = [m \in {l} |-> new - old]
        OBVIOUS
      <4>2. added \in [{l} -> Int] /\ added[l] = new - old /\ increase_allocations({l}, added)
        BY <2>2, <2>3, <3>1, <4>1
      <4>3. h2 = added[l] + h /\ OthersHold(l)
        BY <1>o, <2>3, <2>4, <4>2, HeldIncreased DEF Held
      <4>4. status[LineOrder[l]] = "UNCONFIRMED"
        BY <2>3, <3>1
      <4> QED BY <2>3, <2>5, <4>2, <4>3, <4>4
    <3>2. CASE r.allocate /\ r.old > r.new /\ decrease_allocations({r.line}, one(r.old - r.new))
      <4>1. PICK given : given = [m \in {l} |-> old - new]
        OBVIOUS
      <4>2. given[l] \in Nat /\ given[l] = old - new /\ deallocate_stock({l}, given)
        BY <2>2, <2>3, <3>2, <4>1 DEF decrease_allocations
      <4>3. h2 <= (IF given[l] < h THEN h - given[l] ELSE 0) /\ OthersHold(l)
        BY <1>o, <2>3, <2>4, <4>2, HeldDeallocated DEF Held, OthersHold
      <4>4. status[LineOrder[l]] = "UNCONFIRMED"
        BY <2>3, <3>2
      <4>5. h2 \in Nat
        BY <1>n, <2>3, <2>4
      <4> QED BY <2>3, <2>5, <4>2, <4>3, <4>4, <4>5
    <3>3. CASE (~r.allocate \/ r.old = r.new) /\ UNCHANGED vars
      <4>1. h2 = h /\ OthersHold(l)
        BY <1>u, <2>3, <2>4, <3>3
      <4>2. status[LineOrder[l]] = "DRAFT" \/ old = new
        BY <2>2, <2>3, <3>3
      <4> QED BY <2>3, <2>5, <4>1, <4>2
    <3> QED BY <2>1, <3>1, <3>2, <3>3
  <2>9. LineHolds(l)'
    <3>1. Gone(l)' = 0 /\ Waiting(l)' = 0 /\ Held(l)' = h2
      BY <2>4, <2>5, <2>6
    <3>2. 0 <= new /\ h2 <= new - 0
      BY <2>3, <2>8
    <3> QED BY <2>7, <2>8, <3>1, <3>2 DEF LineHolds
  <2> QED BY <2>3, <2>6, <2>8, <2>9, HoldsOfOneLine
<1>5. CASE order_confirm(w)
  <2>1. /\ r.op = "confirm" /\ UNCHANGED <<ordered, fulfilled, fulfillment>> /\ UNCHANGED vars
        /\ update_order_status(r.order)
    BY <1>1, <1>5 DEF order_confirm
  <2>2. PICK l \in Lines : LineOrder[l] = r.order
    BY <1>2, <2>1, RequestContents, OrderSets
  <2>3. Others(l) /\ Gone(l)' = Gone(l) /\ Waiting(l)' = Waiting(l)
    BY <1>o, <2>1, <2>2, NothingLeaves DEF update_order_status
  <2>4. fulfilled'[l] = Waiting(l)' + Gone(l)'
    BY <2>2 DEF Books, LineBooks
  <2>5. status'[LineOrder[l]] # "DRAFT"
    BY <1>o, <2>1, <2>2, <2>4, StatusIsShown
  <2>6. OthersHold(l) /\ Held(l)' = Held(l)
    BY <1>u, <2>1, <2>2
  <2>7. LineHolds(l)'
    BY <2>1, <2>2, <2>3, <2>5, <2>6 DEF Holds, LineHolds
  <2> QED BY <2>2, <2>3, <2>6, <2>7, HoldsOfOneLine
<1>6. CASE create_fulfillments(w)
  <2>1. PICK l, q : l = request[w].line /\ q = request[w].quantity
    OBVIOUS
  <2>2. /\ l \in Lines /\ q \in Nat \ {0} /\ q <= ordered[l] - fulfilled[l]
        /\ Gone(l)' = Gone(l) + q /\ Waiting(l)' = Waiting(l) + 0
        /\ ordered' = ordered /\ Others(l) /\ LineBooks(l)'
    BY <1>o, <1>6, <2>1, CreateEffect
  <2>3. PICK g, h, n, g2, h2 : /\ g = Gone(l) /\ h = Held(l) /\ n = ordered[l]
                               /\ g2 = Gone(l)' /\ h2 = Held(l)'
    OBVIOUS
  <2>4. /\ g \in Nat /\ Waiting(l) = 0 /\ h \in Nat /\ n \in Nat
        /\ g <= n /\ h <= n - g
    BY <2>2, <2>3, LineNumbers
  <2>5. fulfilled[l] = g
    BY <2>2, <2>3, <2>4 DEF Books, LineBooks
  <2>6. h2 <= (IF q < h THEN h - q ELSE 0) /\ OthersHold(l)
    <3>1. PICK given : given = [m \in {l} |-> q]
      OBVIOUS
    <3>2. deallocate_stock({l}, given)
      BY <1>6, <2>1, <3>1 DEF create_fulfillments, create_fulfillment_lines, decrease_stock
    <3>3. given[l] \in Nat /\ given[l] = q
      BY <2>2, <3>1
    <3> QED BY <1>o, <2>2, <2>3, <3>2, <3>3, HeldDeallocated DEF Held, OthersHold
  <2>7. h2 \in Nat
    BY <1>n, <2>2, <2>3
  <2>8. g2 = g + q /\ Waiting(l)' = 0 /\ g2 <= n /\ h2 <= n - g2
    BY <2>2, <2>3, <2>4, <2>5, <2>6, <2>7
  <2>9. status'[LineOrder[l]] # "DRAFT"
    <3>1. g2 # 0
      BY <2>2, <2>4, <2>8
    <3> QED BY <2>2, <2>3, <3>1 DEF LineBooks, Shows
  <2>10. LineHolds(l)'
    BY <2>2, <2>3, <2>8, <2>9 DEF LineHolds
  <2> QED BY <2>2, <2>6, <2>10, HoldsOfOneLine
<1>7. CASE approve_fulfillment(w) \/ cancel_fulfillment(w)
  <2>1. PICK l, q, st : /\ l = fulfillment[request[w].target].line
                        /\ q = fulfillment[request[w].target].quantity
                        /\ st = fulfillment[request[w].target].status
    OBVIOUS
  <2>2. /\ l \in Lines /\ q \in Nat \ {0} /\ ordered' = ordered /\ st \in {"WAITING", "FULFILLED"}
        /\ r.op = "approve" => st = "WAITING" /\ Waiting(l)' = Waiting(l) - q
        /\ r.op = "cancel" =>
             /\ Gone(l)' = Gone(l) - (IF st = "FULFILLED" THEN q ELSE 0)
             /\ Waiting(l)' = Waiting(l) - (IF st = "WAITING" THEN q ELSE 0)
        /\ r.op \in {"approve", "cancel"}
        /\ status'[LineOrder[l]] # "DRAFT" /\ Others(l)
    BY <1>o, <1>1, <1>7, <2>1, TargetEffect
  <2>3. PICK g, h, n, g2, h2 : /\ g = Gone(l) /\ h = Held(l) /\ n = ordered[l]
                               /\ g2 = Gone(l)' /\ h2 = Held(l)'
    OBVIOUS
  <2>4. /\ g \in Nat /\ Waiting(l) = 0 /\ h \in Nat /\ n \in Nat
        /\ g <= n /\ h <= n - g
    BY <2>2, <2>3, LineNumbers
  <2>5. Waiting(l)' \in Nat
    <3>1. fulfillment' \in RowTable
      BY <1>o DEF OrdersTyped, RowTable
    <3> QED BY <3>1, CarriedWeights DEF Waiting, Statuses
  <2>6. r.op = "cancel" /\ st = "FULFILLED"
    <3>1. st = "WAITING" => Waiting(l)' = Waiting(l) - q
      BY <2>2
    <3>2. st # "WAITING"
      BY <2>2, <2>4, <2>5, <3>1
    <3> QED BY <2>2, <3>2
  <2>7. g2 = g - q /\ Waiting(l)' = 0
    BY <2>2, <2>3, <2>4, <2>6
  <2>8. h2 = h + q /\ OthersHold(l)
    <3>1. r.warehouse \in Warehouses
      <4>1. r.warehouse \in Warehouses \cup {NoWarehouse} /\ (r.warehouse = NoWarehouse <=> st = "WAITING")
        BY <1>1, <1>2, <2>1, <2>6, RequestContents DEF Fresh
      <4> QED BY <2>6, <4>1
    <3>2. increase_stock(l, r.warehouse, q)
      <4>1. r.warehouse # NoWarehouse
        BY <3>1, WarehousesAssumption DEF NoWarehouse
      <4>2. cancel_fulfillment(w)
        BY <1>1, <1>7, <2>6 DEF approve_fulfillment
      <4> QED BY <1>1, <2>1, <4>1, <4>2 DEF cancel_fulfillment
    <3> QED BY <1>o, <2>2, <2>3, <3>1, <3>2, HeldRestocked DEF Held
  <2>9. g2 <= n /\ h2 <= n - g2
    BY <2>2, <2>4, <2>7, <2>8
  <2>10. LineHolds(l)'
    BY <2>2, <2>3, <2>7, <2>9 DEF LineHolds
  <2> QED BY <2>2, <2>8, <2>10, HoldsOfOneLine
<1>8. CASE cancel_order(w)
  <2>1. /\ r.op = "cancel_order" /\ UNCHANGED <<ordered, fulfilled, fulfillment>>
        /\ status' = [status EXCEPT ![r.order] = r.status]
        /\ deallocate_stock_for_orders(OrderLines(r.order))
    BY <1>1, <1>8 DEF cancel_order
  <2>2. r.order \in Orders /\ r.status \in {"CANCELED", "EXPIRED"}
    BY <1>2, <2>1, RequestContents
  <2>3. PICK l \in Lines : LineOrder[l] = r.order /\ OrderLines(r.order) = {l}
    BY <2>2, OrderSets
  <2>4. Others(l) /\ Gone(l)' = Gone(l) /\ Waiting(l)' = Waiting(l)
    BY <1>o, <2>1, <2>3, NothingLeaves
  <2>5. Held(l)' = 0 /\ OthersHold(l)
    BY <1>o, <2>1, <2>3, HeldCleared DEF Held
  <2>6. Gone(l) \in Nat /\ Waiting(l) = 0 /\ ordered[l] \in Nat /\ Gone(l) <= ordered[l]
    BY <2>3, LineNumbers
  <2>7. status'[LineOrder[l]] # "DRAFT"
    BY <1>o, <2>1, <2>2, <2>3 DEF OrdersTyped
  <2>8. LineHolds(l)'
    <3>1. 0 <= ordered[l] - Gone(l)
      BY <2>6
    <3> QED BY <2>1, <2>4, <2>5, <2>6, <2>7, <3>1 DEF LineHolds
  <2> QED BY <2>4, <2>5, <2>8, HoldsOfOneLine
<1>9. CASE RequestFails(w)
  <2>1. UNCHANGED orderVars /\ UNCHANGED vars
    BY <1>9 DEF RequestFails
  <2> QED BY <2>1 DEF Holds, LineHolds, Held, Gone, Waiting, orderVars, vars
<1> QED BY <1>3, <1>4, <1>5, <1>6, <1>7, <1>8, <1>9 DEF CommitRequest

LEMMA NextHolds ==
  ASSUME FulfillmentAutoApprove = TRUE
  PROVE  OrderInv /\ OrderInv' /\ RequestsFresh /\ Books /\ Books' /\ Holds /\ [Next]_allVars => Holds'
<1> SUFFICES ASSUME OrderInv, OrderInv', RequestsFresh, Books, Books', Holds, [Next]_allVars
             PROVE  Holds'
  OBVIOUS
<1>1. CASE UNCHANGED orderVars /\ allocation' = allocation
  BY <1>1 DEF Holds, LineHolds, Held, Gone, Waiting, orderVars
<1>2. ASSUME NEW w \in Workers, ValidateRequest(w) PROVE UNCHANGED orderVars /\ allocation' = allocation
  BY <1>2 DEF ValidateRequest, draft_order_complete_validate, order_confirm_get_instance,
     order_line_update_clean_input, order_fulfill_clean_input, fulfillment_approve_clean_input,
     fulfillment_cancel_validate, order_cancel_clean, expire_orders_read, Validate, vars
<1>3. StaffSetsQuantity => UNCHANGED orderVars /\ allocation' = allocation
  BY DEF StaffSetsQuantity, update_or_create_variant_stocks
<1>4. UNCHANGED allVars => UNCHANGED orderVars /\ allocation' = allocation
  BY DEF allVars, vars
<1> QED BY <1>1, <1>2, <1>3, <1>4, CommitHolds DEF Next

LEMMA HoldsHold == ASSUME OneWorker, FulfillmentAutoApprove = TRUE PROVE Spec => []Holds
<1>1. Init => Holds
  <2> SUFFICES ASSUME Init, NEW l \in Lines PROVE LineHolds(l)
    BY DEF Holds
  <2>1. OrdersTyped /\ TypeOK
    BY InitOrders DEF OrderInv
  <2>2. ASSUME NEW S \in SUBSET Statuses PROVE Carried(fulfillment, {l}, S) = 0
    <3>1. FulfillmentsOf(fulfillment, {l}, S) = {}
      BY DEF Init, FulfillmentsOf, NotCreated, Statuses
    <3> QED BY <3>1, TotalZero DEF Carried
  <2>3. Gone(l) = 0 /\ Waiting(l) = 0
    BY <2>2 DEF Gone, Waiting, Statuses
  <2>4. Held(l) = 0
    <3>1. RowsOfLines({l}) \in SUBSET Rows
      BY <2>1, LineRows
    <3>2. \A k \in RowsOfLines({l}) : allocation[k] \in Int /\ allocation[k] <= 0
      BY <3>1 DEF Init, WarehouseInit, NoRow
    <3> QED BY <3>2, TotalZero DEF Held
  <2>5. ordered[l] \in Nat
    BY <2>1, LineSums
  <2>6. 0 <= ordered[l] /\ 0 <= ordered[l] - 0
    BY <2>5
  <2> QED BY <2>3, <2>4, <2>6 DEF LineHolds
<1> QED BY <1>1, NextHolds, BooksHold, FreshHolds, OrderInvHolds, PTL DEF Spec

(* Where requests follow one another and need no approval, no line is       *)
(* shipped beyond what was ordered, although the order may be edited, taken *)
(* back and shipped again.                                                  *)
THEOREM NothingIsShippedTwice ==
  ASSUME OneWorker, FulfillmentAutoApprove = TRUE
  PROVE  Spec => []NeverFulfilledBeyondOrder
<1>1. OrderInv /\ Holds => NeverFulfilledBeyondOrder
  <2> SUFFICES ASSUME OrderInv, Holds, NEW l \in Lines
               PROVE  Carried(fulfillment, {l}, {"WAITING", "FULFILLED"}) <= ordered[l]
    BY DEF NeverFulfilledBeyondOrder
  <2>1. Carried(fulfillment, {l}, {"WAITING", "FULFILLED"}) = Waiting(l) + Gone(l)
    BY CarriedSplit DEF OrderInv, OrdersTyped, RowTable, Waiting, Gone
  <2> QED BY <2>1, LineNumbers
<1> QED BY <1>1, HoldsHold, OrderInvHolds, PTL

(* And no unit is promised twice: what a line holds in all the stocks and   *)
(* what has left are together within what was ordered.  The units that      *)
(* deallocate_stock leaves are the ones past the quantity that was shipped, *)
(* whichever stocks the line holds them in (FillLeaves).                    *)
THEOREM NothingIsPromisedTwice ==
  ASSUME OneWorker, FulfillmentAutoApprove = TRUE
  PROVE  Spec => []HeldWithinOpen
<1>1. Holds => HeldWithinOpen
  BY DEF Holds, LineHolds, Held, Gone, HeldWithinOpen
<1> QED BY <1>1, HoldsHold, PTL
=============================================================================
