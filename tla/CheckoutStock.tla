---------------------------- MODULE CheckoutStock ----------------------------
(***************************************************************************)
(* Customers compete for the stock: they change the lines of a checkout,   *)
(* and complete it.  A completion first checks the availability of its     *)
(* lines, without a lock on the stocks, and allocates later:               *)
(*                                                                         *)
(*   - complete_checkout_with_transaction checks and allocates in one      *)
(*     transaction, which keeps the checkout row locked;                   *)
(*   - complete_checkout_with_payment checks and reserves in one           *)
(*     transaction, calls the payment gateway, and allocates in a third.   *)
(*                                                                         *)
(* Every request runs on a worker, the staff's too: with one worker the    *)
(* requests follow one another.  A request may fail at any step (refused   *)
(* payment, InsufficientStock, a crash): what it has committed stays.      *)
(***************************************************************************)
EXTENDS Warehouse

CONSTANT Workers           \* API worker processes

VARIABLES
  wanted,        \* CheckoutLine.quantity, 0 when the line does not exist
  placed,        \* how many orders were created from a checkout
  request        \* what a worker has read and not yet used

ASSUME CheckoutLinesAssumption == \A l \in Lines : LineOrder[l] \in CheckoutOrders

checkoutVars == <<wanted, placed, request>>
allVars == <<vars, checkoutVars>>

Idle == [op |-> "idle"]
CheckoutLines(o) == {l \in Lines : LineOrder[l] = o /\ wanted[l] > 0}

(* The Checkout row is deleted when its order is created.                   *)
Exists(o) == placed[o] = 0

(* Checkout.objects.select_for_update(): another transaction has the row.   *)
Locked(o) == \E w \in Workers :
  request[w].op \in {"pre_payment", "with_transaction"} /\ request[w].order = o

(* Mutant: what orders have allocated is not subtracted.                    *)
AvailableUnallocated(l, own, check_reservations) ==
  LET S == LineStocks(l)
      rows == UNION {RowsOfStock(s) : s \in S}
      reserved == IF check_reservations
                  THEN Total(reservation, rows \ (RowsOfLines(own) \cup expired)) ELSE 0
  IN Total(quantity, S) - reserved

(* check_stock_quantity_bulk: what is left of the variant over all stocks   *)
(* of the line; get_reserved_stock_quantity_bulk leaves out `own`.          *)
Available(l, own, check_reservations) ==
  LET S == LineStocks(l)
      rows == UNION {RowsOfStock(s) : s \in S}
      reserved == IF check_reservations
                  THEN Total(reservation, rows \ (RowsOfLines(own) \cup expired)) ELSE 0
  IN Total(quantity, S) - Total(allocation, rows) - reserved

check_stock_quantity_bulk(L, need, own, check_reservations) ==
  \A l \in L : LineStocks(l) # {} /\ need[l] <= Available(l, own, check_reservations)

-----------------------------------------------------------------------------
Proceed(w, r) == request' = [request EXCEPT ![w] = r]
Finish(w) == Proceed(w, Idle)

RequestFails(w) ==
  /\ request[w] # Idle
  /\ Finish(w)
  /\ UNCHANGED <<vars, wanted, placed>>

(* CheckoutLinesUpdate.validate_checkout_lines, then                        *)
(* add_variants_to_checkout under the lock of the checkout.                 *)
validate_checkout_lines(w, l, q) ==
  /\ request[w] = Idle /\ Exists(LineOrder[l])
  /\ check_stock_quantity_bulk({l}, [m \in {l} |-> q],
       CheckoutLines(LineOrder[l]), ReservationsEnabled)
  /\ Proceed(w, [op |-> "update", line |-> l, quantity |-> q])
  /\ UNCHANGED <<vars, wanted, placed>>

(* Mutants: the quantity is added to the line's own; the checkout is not    *)
(* looked for again under its lock.                                         *)
add_variants_to_checkout_adding(w) ==
  LET r == request[w]
  IN /\ r.op = "update" /\ Exists(LineOrder[r.line]) /\ ~Locked(LineOrder[r.line])
     /\ wanted' = [wanted EXCEPT ![r.line] = @ + r.quantity]
     /\ UNCHANGED <<vars, placed>>
     /\ Finish(w)

add_variants_to_checkout_blindly(w) ==
  LET r == request[w]
      o == LineOrder[r.line]
  IN /\ r.op = "update"
     /\ wanted' = [wanted EXCEPT ![r.line] = r.quantity]
     /\ IF ReservationsEnabled
        THEN reserve_stocks({r.line}, [m \in {r.line} |-> r.quantity],
                            CheckoutLines(o) \ {r.line})
        ELSE UNCHANGED vars
     /\ Finish(w) /\ UNCHANGED placed

add_variants_to_checkout(w) ==
  LET r == request[w]
      o == LineOrder[r.line]
  IN /\ r.op = "update" /\ Exists(o) /\ ~Locked(o)
     /\ wanted' = [wanted EXCEPT ![r.line] = r.quantity]
     /\ IF ReservationsEnabled
        THEN reserve_stocks({r.line}, [m \in {r.line} |-> r.quantity],
                            CheckoutLines(o) \ {r.line})
        ELSE UNCHANGED vars
     /\ Finish(w) /\ UNCHANGED placed

(* Mutant: the reserved units are taken off the counter of the stock.       *)
checkout_line_delete_uncounting(l) ==
  /\ \E w \in Workers : request[w] = Idle
  /\ wanted[l] > 0
  /\ wanted' = [wanted EXCEPT ![l] = 0]
  /\ delete_checkout_lines({l})
  /\ quantity_allocated' = [s \in Stocks |-> quantity_allocated[s] -
       Total(reservation, RowsOfLines({l}) \cap RowsOfStock(s))]
  /\ UNCHANGED <<stockRows, quantity, allocation, taskVars, placed, request>>

(* CheckoutLineDelete: the lock is not taken.                               *)
checkout_line_delete(l) ==
  /\ \E w \in Workers : request[w] = Idle
  /\ wanted[l] > 0
  /\ wanted' = [wanted EXCEPT ![l] = 0]
  /\ delete_checkout_lines({l})
  /\ UNCHANGED <<stockVars, allocation, taskVars, placed, request>>

-----------------------------------------------------------------------------
(* The checkout is locked and its lines are fetched and checked: by         *)
(* create_order_from_checkout, or by complete_checkout_pre_payment_part.    *)
create_lines_for_order(w, o, op) ==
  LET L == CheckoutLines(o)
  IN /\ request[w] = Idle /\ Exists(o) /\ ~Locked(o) /\ L # {}
     /\ check_stock_quantity_bulk(L, wanted, L, TRUE)
     /\ Proceed(w, [op |-> op, order |-> o, quantities |-> [l \in L |-> wanted[l]]])
     /\ UNCHANGED <<vars, wanted, placed>>

(* The end of the first transaction of complete_checkout_with_payment: a    *)
(* line that was deleted since makes it raise.                              *)
reserve_during_payment(w) ==
  LET r == request[w]
  IN /\ r.op = "pre_payment"
     /\ \A l \in DOMAIN r.quantities : wanted[l] > 0
     /\ reserve_without_availability_check(DOMAIN r.quantities, r.quantities)
     /\ Proceed(w, [r EXCEPT !.op = "process_payment"])
     /\ UNCHANGED <<wanted, placed>>

(* _process_payment is successful.                                          *)
process_payment(w) ==
  LET r == request[w]
  IN /\ r.op = "process_payment" /\ Exists(r.order) /\ ~Locked(r.order)
     /\ Proceed(w, [r EXCEPT !.op = "post_payment"])
     /\ UNCHANGED <<vars, wanted, placed>>

(* _create_order, with the lines of the pre-payment part, or                *)
(* _create_order_from_checkout; delete_checkouts ends the transaction.      *)
place_order(w) ==
  LET r == request[w]
  IN /\ create_order(DOMAIN r.quantities, r.quantities, TRUE, TRUE)
     /\ placed' = [placed EXCEPT ![r.order] = @ + 1]
     /\ wanted' = [l \in Lines |-> IF LineOrder[l] = r.order THEN 0 ELSE wanted[l]]
     /\ Finish(w)

create_order_from_checkout(w) ==
  request[w].op = "with_transaction" /\ place_order(w)

(* Mutant: the checkout is not looked for again after the payment.          *)
complete_checkout_post_payment_blindly(w) ==
  request[w].op = "post_payment" /\ place_order(w)

complete_checkout_post_payment_part(w) ==
  LET r == request[w]
  IN r.op = "post_payment" /\ Exists(r.order) /\ ~Locked(r.order) /\ place_order(w)

(* "if not checkout": another request has completed it, its order is        *)
(* returned.                                                                *)
return_placed_order(w) ==
  /\ request[w].op \in {"process_payment", "post_payment"}
  /\ ~Exists(request[w].order)
  /\ Finish(w)
  /\ UNCHANGED <<vars, wanted, placed>>

-----------------------------------------------------------------------------
Init ==
  /\ WarehouseInit
  /\ wanted = [l \in Lines |-> 0]
  /\ placed = [o \in CheckoutOrders |-> 0]
  /\ request = [w \in Workers |-> Idle]

StaffSetsQuantity ==
  /\ \E w \in Workers : request[w] = Idle
  /\ \E s \in Stocks, q \in 0 .. MaxQuantity : update_or_create_variant_stocks(s, q)
  /\ UNCHANGED checkoutVars

ReservationsEnd ==
  /\ \/ \E k \in Rows : ReservationExpires(k)
     \/ delete_expired_reservations_task
  /\ UNCHANGED checkoutVars

CompletionStep(w) ==
  \/ \E o \in CheckoutOrders : create_lines_for_order(w, o, "with_transaction")
  \/ \E o \in CheckoutOrders : create_lines_for_order(w, o, "pre_payment")
  \/ reserve_during_payment(w)
  \/ process_payment(w)
  \/ create_order_from_checkout(w)
  \/ complete_checkout_post_payment_part(w)
  \/ return_placed_order(w)

Next ==
  \/ \E w \in Workers, l \in Lines, q \in 1 .. MaxNeed : validate_checkout_lines(w, l, q)
  \/ \E w \in Workers : add_variants_to_checkout(w)
  \/ \E l \in Lines : checkout_line_delete(l)
  \/ \E w \in Workers : CompletionStep(w) \/ RequestFails(w)
  \/ StaffSetsQuantity
  \/ ReservationsEnd

Spec == Init /\ [][Next]_allVars

-----------------------------------------------------------------------------
VariantRows(v) == {k \in Rows : k[2][1] = v}
Placing(w) == create_order_from_checkout(w) \/ complete_checkout_post_payment_part(w)

(* The checkouts are well formed.                                           *)
CheckoutTypeOK ==
  /\ TypeOK
  /\ wanted \in [Lines -> 0 .. MaxNeed]
  /\ placed \in [CheckoutOrders -> Nat]

(* complete_checkout locks the checkout and returns the existing order when *)
(* it is gone, so that a completion repeated or raced makes no second order. *)
OneOrderPerCheckout == \A o \in CheckoutOrders : placed[o] <= 1

(* "it prevents users ordering the same product, in the same time, which is *)
(* out of stock": an order is placed only for units that are there and that *)
(* nobody else was promised, by an order or by a reservation.               *)
OrdersLeaveWhatIsPromised ==
  [][\A w \in Workers : Placing(w) => \A l \in DOMAIN request[w].quantities :
       LET v == LineVariant[l]
       IN Total(allocation', VariantRows(v)) + Total(reservation', VariantRows(v) \ expired')
            <= Total(quantity', {s \in Stocks : s[1] = v})]_allVars

(* A line is never ordered and still reserving: the checkout's reservations *)
(* end with the transaction that allocates for its order.                   *)
PlacedHoldsNoReservation ==
  \A l \in Lines : LineOrder[l] \in CheckoutOrders /\ placed[LineOrder[l]] > 0 =>
    HasNone(reservation, {l})
=============================================================================
