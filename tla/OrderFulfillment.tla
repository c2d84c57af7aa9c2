-------------------------- MODULE OrderFulfillment --------------------------
(***************************************************************************)
(* An order's life on the stock tables: completed from a draft, edited     *)
(* while unconfirmed, confirmed, fulfilled line by line, approved, its     *)
(* fulfillments canceled, itself canceled or expired.                      *)
(*                                                                         *)
(* A mutation first loads and validates its objects without a lock, and    *)
(* only then opens its transaction.  Each mutation is two actions: the     *)
(* validation leaves a request holding what was read, and the transaction  *)
(* takes it up later, when another worker may have changed the rows.       *)
(* A request may also fail at any time and leave no trace.                 *)
(*                                                                         *)
(* An order has one line here, and a request names one warehouse; a        *)
(* mutation naming several repeats the same steps for each.                *)
(***************************************************************************)
EXTENDS Warehouse

CONSTANTS
  Fulfillments,              \* bound: the fulfillments that can be created
  Workers,                   \* API workers and the celery worker
  FulfillmentAutoApprove,    \* site.settings.fulfillment_auto_approve
  AutoConfirm                \* channel.automatically_confirm_all_new_orders

VARIABLES
  status,          \* Order.status
  ordered,         \* OrderLine.quantity
  fulfilled,       \* OrderLine.quantity_fulfilled
  fulfillment,     \* the Fulfillment rows, each with its one line
  request          \* what a worker has validated and not yet committed

ASSUME OneLineOrders == \A l, m \in Lines : LineOrder[l] = LineOrder[m] => l = m
ASSUME FulfillmentsAssumption == Fulfillments \subseteq Nat /\ IsFiniteSet(Fulfillments)
ASSUME AutoApproveAssumption == FulfillmentAutoApprove \in BOOLEAN

orderVars == <<status, ordered, fulfilled, fulfillment>>
allVars == <<vars, orderVars, request>>

Orders == OrdersOf(Lines)
OrderLines(o) == {l \in Lines : LineOrder[l] = o}
Idle == [op |-> "idle"]
NotCreated == [status |-> "none"]

(* The fulfillments of a line with one of the given statuses, and the units *)
(* they carry.                                                              *)
FulfillmentsOf(rows, L, statuses) ==
  {f \in Fulfillments : rows[f].status \in statuses /\ rows[f].line \in L}
Carried(rows, L, statuses) ==
  Total([f \in Fulfillments |-> IF rows[f] = NotCreated THEN 0 ELSE rows[f].quantity],
        FulfillmentsOf(rows, L, statuses))

-----------------------------------------------------------------------------
(* Mutants: the units waiting for their approval count as shipped; a partly *)
(* shipped order is shown as done.                                          *)
determine_order_status_with_waiting(o, done, rows) ==
  LET total == Total(ordered, OrderLines(o))
      approved == Total(done, OrderLines(o))
  IN IF total = 0 THEN status[o]
     ELSE IF approved <= 0 THEN "UNFULFILLED"
     ELSE IF approved < total THEN "PARTIALLY_FULFILLED"
     ELSE "FULFILLED"

determine_order_status_early(o, done, rows) ==
  LET total == Total(ordered, OrderLines(o))
      approved == Total(done, OrderLines(o))
                    - Carried(rows, OrderLines(o), {"WAITING"})
  IN IF total = 0 THEN status[o]
     ELSE IF approved <= 0 THEN "UNFULFILLED"
     ELSE IF approved + 1 < total THEN "PARTIALLY_FULFILLED"
     ELSE "FULFILLED"

(* determine_order_status on what update_order_status reads under its lock. *)
determine_order_status(o, done, rows) ==
  LET total == Total(ordered, OrderLines(o))
      approved == Total(done, OrderLines(o))
                    - Carried(rows, OrderLines(o), {"WAITING"})
  IN IF total = 0 THEN status[o]
     ELSE IF approved <= 0 THEN "UNFULFILLED"
     ELSE IF approved < total THEN "PARTIALLY_FULFILLED"
     ELSE "FULFILLED"

update_order_status(o) ==
  status' = [status EXCEPT ![o] = determine_order_status(o, fulfilled', fulfillment')]

-----------------------------------------------------------------------------
Validate(w, r) ==
  /\ request[w] = Idle
  /\ request' = [request EXCEPT ![w] = r]
  /\ UNCHANGED <<vars, orderVars>>

Finish(w) == request' = [request EXCEPT ![w] = Idle]

RequestFails(w) ==
  /\ request[w] # Idle
  /\ Finish(w)
  /\ UNCHANGED <<vars, orderVars>>

(* DraftOrderComplete.validate_order: the lines are prefetched here.        *)
draft_order_complete_validate(w, o) ==
  /\ status[o] = "DRAFT"
  /\ Validate(w, [op |-> "complete", order |-> o,
                  quantities |-> [l \in OrderLines(o) |-> ordered[l]]])

draft_order_complete(w) ==
  LET r == request[w]
  IN /\ r.op = "complete"
     /\ create_order(OrderLines(r.order), r.quantities, FALSE, ReservationsEnabled)
     /\ status' = [status EXCEPT ![r.order] =
                     IF AutoConfirm THEN "UNFULFILLED" ELSE "UNCONFIRMED"]
     /\ Finish(w)
     /\ UNCHANGED <<ordered, fulfilled, fulfillment>>

(* Mutant: any order is editable.                                           *)
order_line_update_any_order(w, l, new_quantity) ==
  Validate(w, [op |-> "edit", line |-> l, old |-> ordered[l], new |-> new_quantity,
               allocate |-> status[LineOrder[l]] # "DRAFT"])

(* OrderLineUpdate.clean_input on an editable order, and                    *)
(* change_order_line_quantity: the difference to the quantity that was read *)
(* is added to, or taken from, what the line holds by now.                  *)
order_line_update_clean_input(w, l, new_quantity) ==
  /\ status[LineOrder[l]] \in {"DRAFT", "UNCONFIRMED"}
  /\ Validate(w, [op |-> "edit", line |-> l, old |-> ordered[l], new |-> new_quantity,
                  allocate |-> status[LineOrder[l]] = "UNCONFIRMED"])

(* Mutant: a smaller quantity gives nothing back to the stock.              *)
change_order_line_quantity_keeping(w) ==
  LET r == request[w]
  IN /\ r.op = "edit"
     /\ \/ /\ r.allocate /\ r.old < r.new
           /\ increase_allocations({r.line}, [m \in {r.line} |-> r.new - r.old])
        \/ (~r.allocate \/ r.old >= r.new) /\ UNCHANGED vars
     /\ ordered' = [ordered EXCEPT ![r.line] = r.new]
     /\ Finish(w)
     /\ UNCHANGED <<status, fulfilled, fulfillment>>

change_order_line_quantity(w) ==
  LET r == request[w]
      one(value) == [m \in {r.line} |-> value]
  IN /\ r.op = "edit"
     /\ \/ r.allocate /\ r.old < r.new /\ increase_allocations({r.line}, one(r.new - r.old))
        \/ r.allocate /\ r.old > r.new /\ decrease_allocations({r.line}, one(r.old - r.new))
        \/ (~r.allocate \/ r.old = r.new) /\ UNCHANGED vars
     /\ ordered' = [ordered EXCEPT ![r.line] = r.new]
     /\ Finish(w)
     /\ UNCHANGED <<status, fulfilled, fulfillment>>

(* OrderConfirm.get_instance and perform_mutation.                          *)
order_confirm_get_instance(w, o) ==
  /\ status[o] = "UNCONFIRMED"
  /\ Validate(w, [op |-> "confirm", order |-> o])

order_confirm(w) ==
  /\ request[w].op = "confirm"
  /\ UNCHANGED <<vars, ordered, fulfilled, fulfillment>>
  /\ update_order_status(request[w].order)
  /\ Finish(w)

(* OrderFulfill.clean_input: the line is loaded here, once; the status of   *)
(* the order is not looked at.                                              *)
order_fulfill_clean_input(w, l, q, warehouse, exceed) ==
  /\ q <= ordered[l] - fulfilled[l]
  /\ Validate(w, [op |-> "fulfill", line |-> l, quantity |-> q, warehouse |-> warehouse,
                  exceed |-> exceed, seen |-> fulfilled[l]])

(* _create_fulfillment_lines: the units are shipped at once, or when they   *)
(* are approved; quantity_fulfilled is written from the line loaded before. *)
create_fulfillment_lines(r) ==
  LET one(value) == [m \in {r.line} |-> value]
  IN /\ r.exceed \/ <<LineVariant[r.line], r.warehouse>> \in stockRows
     /\ IF FulfillmentAutoApprove
        THEN decrease_stock({r.line}, one(r.quantity), one(r.warehouse), Lines, r.exceed)
        ELSE UNCHANGED vars
     /\ fulfilled' = [fulfilled EXCEPT ![r.line] = r.seen + r.quantity]

(* create_fulfillments: the quantities are checked again on the locked line, *)
(* and the fulfillment gets the next pk.                                    *)
create_fulfillments(w) ==
  LET r == request[w]
      unused == {f \in Fulfillments : fulfillment[f] = NotCreated}
      has_stock == <<LineVariant[r.line], r.warehouse>> \in stockRows
  IN /\ r.op = "fulfill"
     /\ r.quantity <= ordered[r.line] - fulfilled[r.line]
     /\ create_fulfillment_lines(r)
     /\ \E f \in unused :
          /\ \A g \in unused : f <= g
          /\ fulfillment' = [fulfillment EXCEPT ![f] =
               [status |-> IF FulfillmentAutoApprove THEN "FULFILLED" ELSE "WAITING",
                line |-> r.line, quantity |-> r.quantity,
                warehouse |-> IF has_stock THEN r.warehouse ELSE NoWarehouse]]
     /\ IF FulfillmentAutoApprove THEN update_order_status(LineOrder[r.line])
        ELSE UNCHANGED status
     /\ Finish(w) /\ UNCHANGED ordered

(* FulfillmentApprove.clean_input, and approve_fulfillment, which neither   *)
(* locks the fulfillment nor looks at its status again.                     *)
fulfillment_approve_clean_input(w, f, exceed) ==
  /\ fulfillment[f].status = "WAITING"
  /\ Validate(w, [op |-> "approve", target |-> f, exceed |-> exceed])

approve_fulfillment(w) ==
  LET r == request[w]
      row == fulfillment[r.target]
      one(value) == [m \in {row.line} |-> value]
  IN /\ r.op = "approve"
     /\ decrease_stock({row.line}, one(row.quantity), one(row.warehouse), Lines, r.exceed)
     /\ fulfillment' = [fulfillment EXCEPT ![r.target].status = "FULFILLED"]
     /\ UNCHANGED <<ordered, fulfilled>>
     /\ update_order_status(LineOrder[row.line])
     /\ Finish(w)

(* FulfillmentCancel.validate_fulfillment: a warehouse is named unless the  *)
(* fulfillment waits for its approval.  cancel_fulfillment locks the row    *)
(* but does not look at its status again.                                   *)
fulfillment_cancel_validate(w, f, warehouse) ==
  /\ fulfillment[f].status \in {"WAITING", "FULFILLED"}
  /\ Validate(w, [op |-> "cancel", target |-> f, warehouse |->
       IF fulfillment[f].status = "WAITING" THEN NoWarehouse ELSE warehouse])

(* Mutant: decrease_fulfilled_quantity only when units are restocked.       *)
cancel_fulfillment_waiting_counts(w) ==
  LET r == request[w]
      row == fulfillment[r.target]
  IN /\ r.op = "cancel"
     /\ IF r.warehouse = NoWarehouse THEN UNCHANGED <<vars, fulfilled>>
        ELSE /\ increase_stock(row.line, r.warehouse, row.quantity)
             /\ fulfilled' = [fulfilled EXCEPT ![row.line] = @ - row.quantity]
     /\ fulfillment' = [fulfillment EXCEPT ![r.target].status = "CANCELED"]
     /\ UNCHANGED ordered
     /\ update_order_status(LineOrder[row.line])
     /\ Finish(w)

(* Mutant: decrease_fulfilled_quantity is forgotten.                        *)
cancel_fulfillment_not_decreasing(w) ==
  LET r == request[w]
      row == fulfillment[r.target]
  IN /\ r.op = "cancel"
     /\ IF r.warehouse = NoWarehouse THEN UNCHANGED vars
        ELSE increase_stock(row.line, r.warehouse, row.quantity)
     /\ fulfillment' = [fulfillment EXCEPT ![r.target].status = "CANCELED"]
     /\ UNCHANGED <<ordered, fulfilled>>
     /\ update_order_status(LineOrder[row.line])
     /\ Finish(w)

cancel_fulfillment(w) ==
  LET r == request[w]
      row == fulfillment[r.target]
  IN /\ r.op = "cancel"
     /\ IF r.warehouse = NoWarehouse THEN UNCHANGED vars
        ELSE increase_stock(row.line, r.warehouse, row.quantity)
     /\ fulfilled' = [fulfilled EXCEPT ![row.line] = @ - row.quantity]
     /\ fulfillment' = [fulfillment EXCEPT ![r.target].status = "CANCELED"]
     /\ UNCHANGED ordered
     /\ update_order_status(LineOrder[row.line])
     /\ Finish(w)

(* OrderCancel.clean_order_cancel (can_cancel), and cancel_order.           *)
order_cancel_clean(w, o) ==
  /\ status[o] \notin {"DRAFT", "CANCELED", "EXPIRED"}
  /\ FulfillmentsOf(fulfillment, OrderLines(o), {"WAITING", "FULFILLED"}) = {}
  /\ Validate(w, [op |-> "cancel_order", order |-> o, status |-> "CANCELED"])

(* _expire_orders: the unconfirmed orders are read from the replica.        *)
expire_orders_read(w, o) ==
  /\ status[o] = "UNCONFIRMED"
  /\ Validate(w, [op |-> "cancel_order", order |-> o, status |-> "EXPIRED"])

(* Mutant: the rows of the order are emptied, the counters left alone.      *)
cancel_order_rows_only(w) ==
  LET r == request[w]
  IN /\ r.op = "cancel_order"
     /\ allocation' = [k \in Rows |-> IF k[1] \in OrderLines(r.order) /\ allocation[k] > 0
                                      THEN 0 ELSE allocation[k]]
     /\ UNCHANGED <<stockVars, reservation, expired, taskVars>>
     /\ status' = [status EXCEPT ![r.order] = r.status]
     /\ Finish(w)
     /\ UNCHANGED <<ordered, fulfilled, fulfillment>>

cancel_order(w) ==
  LET r == request[w]
  IN /\ r.op = "cancel_order"
     /\ deallocate_stock_for_orders(OrderLines(r.order))
     /\ status' = [status EXCEPT ![r.order] = r.status]
     /\ Finish(w)
     /\ UNCHANGED <<ordered, fulfilled, fulfillment>>

-----------------------------------------------------------------------------
Init ==
  /\ WarehouseInit
  /\ status = [o \in Orders |-> "DRAFT"]
  /\ ordered \in [Lines -> 1 .. MaxNeed]
  /\ fulfilled = [l \in Lines |-> 0]
  /\ fulfillment = [f \in Fulfillments |-> NotCreated]
  /\ request = [w \in Workers |-> Idle]

StaffSetsQuantity ==
  /\ \E s \in Stocks, q \in 0 .. MaxQuantity : update_or_create_variant_stocks(s, q)
  /\ UNCHANGED <<orderVars, request>>

ValidateRequest(w) ==
  \/ \E o \in Orders : draft_order_complete_validate(w, o) \/ order_confirm_get_instance(w, o)
  \/ \E l \in Lines, q \in 1 .. MaxNeed : order_line_update_clean_input(w, l, q)
  \/ \E l \in Lines, q \in 1 .. MaxNeed, warehouse \in Warehouses, exceed \in BOOLEAN :
       order_fulfill_clean_input(w, l, q, warehouse, exceed)
  \/ \E f \in Fulfillments, exceed \in BOOLEAN : fulfillment_approve_clean_input(w, f, exceed)
  \/ \E f \in Fulfillments, warehouse \in Warehouses :
       fulfillment_cancel_validate(w, f, warehouse)
  \/ \E o \in Orders : order_cancel_clean(w, o) \/ expire_orders_read(w, o)

CommitRequest(w) ==
  \/ draft_order_complete(w)
  \/ change_order_line_quantity(w)
  \/ order_confirm(w)
  \/ create_fulfillments(w)
  \/ approve_fulfillment(w)
  \/ cancel_fulfillment(w)
  \/ cancel_order(w)
  \/ RequestFails(w)

Next ==
  \/ StaffSetsQuantity
  \/ \E w \in Workers : ValidateRequest(w) \/ CommitRequest(w)

Spec == Init /\ [][Next]_allVars

-----------------------------------------------------------------------------
(* The order tables are well formed.                                        *)
OrderTypeOK ==
  /\ TypeOK
  /\ status \in [Orders -> {"DRAFT", "UNCONFIRMED", "UNFULFILLED",
       "PARTIALLY_FULFILLED", "FULFILLED", "CANCELED", "EXPIRED"}]
  /\ ordered \in [Lines -> Nat] /\ fulfilled \in [Lines -> Int]
  /\ \A f \in Fulfillments : fulfillment[f] = NotCreated \/
       /\ fulfillment[f].status \in {"WAITING", "FULFILLED", "CANCELED"}
       /\ fulfillment[f].line \in Lines

(* "refresh order lines from db to prevent race condition": the             *)
(* quantity_fulfilled of a line counts the units of its fulfillments that   *)
(* are not canceled.                                                        *)
FulfilledCountsFulfillments ==
  \A l \in Lines :
    fulfilled[l] = Carried(fulfillment, {l}, {"WAITING", "FULFILLED"})

(* No line is fulfilled beyond what was ordered.  (Where fulfillments wait  *)
(* for approval nothing promises it: a draft can be fulfilled, then edited  *)
(* to less.)                                                                *)
NeverFulfilledBeyondOrder ==
  \A l \in Lines : Carried(fulfillment, {l}, {"WAITING", "FULFILLED"}) <= ordered[l]

(* A line never holds more units in the stocks than were ordered and have   *)
(* not left the warehouse, so that no unit is promised to it twice.         *)
HeldWithinOpen ==
  \A l \in Lines : Total(allocation, RowsOfLines({l}))
                     <= ordered[l] - Carried(fulfillment, {l}, {"FULFILLED"})

(* The status of an order that is being shipped says how much of it has     *)
(* left: update_order_status is called wherever that changes, and units     *)
(* that wait for their approval do not count.                               *)
StatusShowsProgress ==
  \A o \in Orders :
    LET gone == Carried(fulfillment, OrderLines(o), {"FULFILLED"})
        total == Total(ordered, OrderLines(o))
    IN CASE status[o] = "UNFULFILLED" -> gone = 0
         [] status[o] = "PARTIALLY_FULFILLED" -> 0 < gone /\ gone < total
         [] status[o] = "FULFILLED" -> gone >= total
         [] OTHER -> TRUE
=============================================================================
