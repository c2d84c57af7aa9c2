------------------------------ MODULE Warehouse ------------------------------
(***************************************************************************)
(* The stock tables of saleor.warehouse and the operations on them.        *)
(*                                                                         *)
(* A Stock row holds what lies in one warehouse of one product variant     *)
(* (quantity) and, denormalised, how much of it is promised to order lines *)
(* (quantity_allocated).  The promises themselves are the Allocation rows  *)
(* of order lines, and a Reservation row keeps units for a checkout line   *)
(* until reserved_until.  Both models declare one row per line and stock   *)
(* (unique_together), but migrations 0024 and 0028 drop the line column    *)
(* they were declared on, and with it the constraint: the database takes a *)
(* second row.  MaxCopies = 1 is the database the models declare.          *)
(*                                                                         *)
(* Each operation runs in one database transaction that locks its stock    *)
(* rows first (lock_objects.py), so each is one action; a call that raises *)
(* rolls back and is no step.  The celery tasks of tasks.py read before    *)
(* they lock: a read and a write are two actions.                          *)
(*                                                                         *)
(* A line is one member of Lines for its whole life: the checkout line     *)
(* that reserves and the order line it becomes.                            *)
(***************************************************************************)
EXTENDS RowSums

CONSTANTS
  Variants,              \* product variants
  Warehouses,            \* warehouses, numbered in the pk order of their stocks
  Lines,                 \* checkout/order lines, numbered in pk order
  LineVariant,           \* the variant of a line
  LineOrder,             \* the checkout/order a line belongs to
  LineWarehouses,        \* the warehouses that can ship to the line's order
  LineCollectionPoint,   \* its click-and-collect warehouse, or NoWarehouse
  AllocationStrategy,    \* channel.allocation_strategy
  ChannelRank,           \* position of a warehouse in the channel
  MaxCopies,             \* bound: the rows a line can have on one stock
  Sweeper,               \* celery workers running the tasks of tasks.py
  CheckoutOrders,        \* the orders that come from a checkout, not a draft
  ReservationsEnabled,   \* is_reservation_enabled(site.settings)
  MaxQuantity,           \* bound: no stock grows beyond this quantity
  MaxNeed,               \* bound: units asked for by one call
  MaxCounter             \* bound: how far a counter may be from zero

VARIABLES
  stockRows,             \* the (variant, warehouse) pairs that have a Stock row
  quantity,              \* Stock.quantity
  quantity_allocated,    \* Stock.quantity_allocated
  allocation,            \* Allocation.quantity_allocated of (line, stock, copy)
  reservation,           \* Reservation.quantity_reserved of (line, stock, copy)
  expired,               \* reservation rows whose reserved_until has passed
  sweep,                 \* ids a delete_empty_allocations_task has read
  repair                 \* sums an update_stocks_quantity_allocated_task has read

stockVars == <<stockRows, quantity, quantity_allocated>>
taskVars == <<sweep, repair>>
vars == <<stockVars, allocation, reservation, expired, taskVars>>

NoRow == -1
NoWarehouse == -1
Stocks == Variants \X Warehouses
Copies == 1 .. MaxCopies
Rows == Lines \X Stocks \X Copies
HighStock == "prioritize-high-stock"
SortingOrder == "prioritize-sorting-order"

ASSUME VariantsAssumption == IsFiniteSet(Variants)
ASSUME WarehousesAssumption == Warehouses \subseteq Nat /\ IsFiniteSet(Warehouses)
ASSUME LinesAssumption == Lines \subseteq Nat /\ IsFiniteSet(Lines)
ASSUME CopiesAssumption == MaxCopies \in Nat \ {0}
ASSUME LineVariantAssumption == LineVariant \in [Lines -> Variants]
ASSUME LineWarehousesAssumption ==
  LineWarehouses \in [Lines -> SUBSET Warehouses]
ASSUME CollectionPointAssumption ==
  LineCollectionPoint \in [Lines -> Warehouses \cup {NoWarehouse}]
ASSUME StrategyAssumption == AllocationStrategy \in {HighStock, SortingOrder}
ASSUME RankAssumption == ChannelRank \in [Warehouses -> Nat]
ASSUME SettingsAssumption == ReservationsEnabled \in BOOLEAN
ASSUME BoundAssumption ==
  MaxQuantity \in Nat /\ MaxNeed \in Nat \ {0} /\ MaxCounter \in Nat

-----------------------------------------------------------------------------
SameOrder(L) == {m \in Lines : \E l \in L : LineOrder[m] = LineOrder[l]}
RowsOfLines(L) == L \X Stocks \X Copies
RowsOfStock(s) == Lines \X {s} \X Copies

(* Sum("quantity_allocated") of the Allocation rows of a stock.             *)
StockAllocated(rows, s) == Total(rows, RowsOfStock(s))

(* Sum("quantity_reserved") over not_expired().exclude_checkout_lines(own). *)
StockReserved(s, own) ==
  Total(reservation, RowsOfStock(s) \ (RowsOfLines(own) \cup expired))

(* The row that bulk_create adds for a line and a stock.                    *)
IsNextRow(rows, k) ==
  /\ rows[k] = NoRow
  /\ \A c \in Copies : c < k[3] => rows[<<k[1], k[2], c>>] # NoRow

(* The stocks an allocation may use: for_channel_or_country or              *)
(* for_channel_and_click_and_collect, restricted to the line's variant.     *)
LineStocks(l) ==
  {s \in stockRows : s[1] = LineVariant[l] /\ s[2] \in LineWarehouses[l]}

(* Whether sort_stocks places s before t: the collection point first, then  *)
(* the fullest stock or the channel's own order, ties by pk.                *)
sort_stocks(held, collection_point, s, t) ==
  LET key(u) == IF AllocationStrategy = HighStock
                THEN held[u] - quantity[u] ELSE ChannelRank[u[2]]
  IN /\ t[2] # collection_point
     /\ \/ s[2] = collection_point
        \/ key(s) < key(t)
        \/ key(s) = key(t) /\ s[2] < t[2]

(* Taking `need` units from the stocks in order, as many as each has: what  *)
(* each one gives.  earlier[s] are the stocks visited before s.             *)
Fill(need, avail, earlier) ==
  [s \in DOMAIN avail |->
     LET rest == need - Total(avail, earlier[s])
     IN IF rest <= 0 \/ avail[s] <= 0 THEN 0
        ELSE IF rest < avail[s] THEN rest ELSE avail[s]]

(* The new rows of the lines: what each takes from each of its stocks, all  *)
(* lines looking at the same availability.                                  *)
TakeInOrder(rows, L, need, held, reserved, pointOf) ==
  [k \in Rows |->
     IF k[1] \in L /\ k[2] \in LineStocks(k[1]) /\ IsNextRow(rows, k)
     THEN LET S == LineStocks(k[1])
              avail == [s \in S |-> quantity[s] - held[s] - reserved[s]]
              earlier == [s \in S |-> {t \in S :
                            sort_stocks(held, pointOf[k[1]], t, s)}]
          IN Fill(need[k[1]], avail, earlier)[k[2]]
     ELSE 0]

(* Every line got all it asked for; otherwise InsufficientStock is raised.  *)
Satisfied(L, need, take) == \A l \in L : Total(take, RowsOfLines({l})) = need[l]

-----------------------------------------------------------------------------
(* Mutant: what other lines have allocated is not looked at.                *)
create_allocations_ignoring_allocated(rows, L, need, check_reservations) ==
  TakeInOrder(rows, L, need, [s \in Stocks |-> 0], [s \in Stocks |-> 0], LineCollectionPoint)

(* _create_allocations for every line of the call.  With check_reservations *)
(* the ids of the locked stocks are a generator that the reservation query  *)
(* has used up, and the query for the allocated quantities finds no row.    *)
create_allocations(rows, L, need, check_reservations) ==
  TakeInOrder(rows, L, need,
    [s \in Stocks |-> IF check_reservations THEN 0 ELSE StockAllocated(rows, s)],
    [s \in Stocks |-> IF check_reservations THEN StockReserved(s, SameOrder(L)) ELSE 0],
    LineCollectionPoint)

(* bulk_create of the new rows.                                             *)
Created(rows, take) == [k \in Rows |-> IF take[k] > 0 THEN take[k] ELSE rows[k]]

(* Mutant: the counter is set to what the call allocates, not raised by it. *)
allocate_stocks_overwriting(L, need, check_reservations) ==
  LET take == create_allocations(allocation, L, need, check_reservations)
  IN /\ Satisfied(L, need, take)
     /\ allocation' = Created(allocation, take)
     /\ quantity_allocated' = [s \in Stocks |->
          IF Total(take, RowsOfStock(s)) > 0 THEN Total(take, RowsOfStock(s))
          ELSE quantity_allocated[s]]
     /\ UNCHANGED <<stockRows, quantity, taskVars>>

(* allocate_stocks for the tracked lines L of an order.                     *)
allocate_stocks(L, need, check_reservations) ==
  LET take == create_allocations(allocation, L, need, check_reservations)
  IN /\ Satisfied(L, need, take)
     /\ allocation' = Created(allocation, take)
     /\ quantity_allocated' = [s \in Stocks |->
          quantity_allocated[s] + Total(take, RowsOfStock(s))]
     /\ UNCHANGED <<stockRows, quantity, taskVars>>

(* increase_allocations: the rows of the lines are deleted, and the lines   *)
(* allocated again with the added quantity.                                 *)
increase_allocations(L, added) ==
  LET need == [l \in L |-> added[l] + Total(allocation, RowsOfLines({l}))]
      rows == [k \in Rows |-> IF k[1] \in L THEN NoRow ELSE allocation[k]]
      take == create_allocations(rows, L, need, FALSE)
  IN /\ Satisfied(L, need, take)
     /\ allocation' = Created(rows, take)
     /\ quantity_allocated' = [s \in Stocks |->
          quantity_allocated[s] - Total(allocation, RowsOfLines(L) \cap RowsOfStock(s))
                                + Total(take, RowsOfStock(s))]
     /\ sweep' = [w \in Sweeper |-> sweep[w] \ RowsOfLines(L)]
     /\ UNCHANGED <<stockRows, quantity, reservation, expired, repair>>

(* What deallocate_stock takes back from each row: as much of the line's    *)
(* quantity as its rows hold, stock by stock in pk order.                   *)
Deallocated(L, quantities) ==
  [k \in Rows |->
     IF k[1] \in L
     THEN LET earlier(j) == {i \in RowsOfLines({k[1]}) :
                               /\ i[2][1] = j[2][1]
                               /\ \/ i[2][2] < j[2][2]
                                  \/ i[2][2] = j[2][2] /\ i[3] < j[3]}
          IN Fill(quantities[k[1]], allocation, [j \in Rows |-> earlier(j)])[k]
     ELSE 0]

(* Every row carries its own copy of the Stock object, and bulk_update      *)
(* writes the first copy it is given: of the rows that share a stock only   *)
(* the first one's quantity is subtracted.                                  *)
FirstGiven(take, s) ==
  LET given == {k \in RowsOfStock(s) : take[k] > 0}
      first == {k \in given : \A j \in given :
                  k[1] < j[1] \/ (k[1] = j[1] /\ k[3] <= j[3])}
  IN Total(take, first)

(* deallocate_stock, and its callers that let the AllocationError of a line *)
(* with fewer units than asked for pass: decrease_allocations (which zeroes *)
(* rows that are zero already) and the move of order lines to a return.     *)
deallocate_stock(L, quantities) ==
  LET take == Deallocated(L, quantities)
  IN /\ allocation' = [k \in Rows |-> allocation[k] - take[k]]
     /\ quantity_allocated' = [s \in Stocks |->
          quantity_allocated[s] - FirstGiven(take, s)]

decrease_allocations(L, quantities) ==
  /\ deallocate_stock(L, quantities)
  /\ UNCHANGED <<stockRows, quantity, reservation, expired, taskVars>>

(* decrease_stock: shipping the lines L from the warehouses W.  The lines   *)
(* give up their allocations wherever these are, then the tracked ones are  *)
(* taken out of the stock, which keeps what is allocated to other lines     *)
(* unless allow_stock_to_be_exceeded.  Bound: the deficit of a stock.       *)
decrease_stock(L, quantities, W, tracked, allow_stock_to_be_exceeded) ==
  LET target(l) == <<LineVariant[l], W[l]>>
      shipped(s) == Total(quantities, {l \in L \cap tracked : target(l) = s})
  IN /\ deallocate_stock(L, quantities)
     /\ quantity' = [s \in Stocks |->
          IF s \in stockRows THEN quantity[s] - shipped(s) ELSE quantity[s]]
     /\ allow_stock_to_be_exceeded \/ \A l \in L \cap tracked :
          /\ target(l) \in stockRows
          /\ quantity'[target(l)] >= StockAllocated(allocation', target(l))
     /\ \A s \in Stocks : quantity'[s] >= -MaxQuantity
     /\ UNCHANGED <<stockRows, reservation, expired, taskVars>>

(* Mutants: the units come back without the counter, or into a warehouse    *)
(* where no Stock row is created for them.                                  *)
increase_stock_not_counting(l, w, restocked) ==
  LET s == <<LineVariant[l], w>>
      k == <<l, s, 1>>
  IN /\ quantity[s] + restocked <= MaxQuantity
     /\ stockRows' = stockRows \cup {s}
     /\ quantity' = [quantity EXCEPT ![s] = @ + restocked]
     /\ allocation' = [allocation EXCEPT ![k] =
                         IF @ = NoRow THEN restocked ELSE @ + restocked]
     /\ UNCHANGED <<quantity_allocated, reservation, expired, taskVars>>

increase_stock_without_row(l, w, restocked) ==
  LET s == <<LineVariant[l], w>>
      k == <<l, s, 1>>
  IN /\ quantity[s] + restocked <= MaxQuantity
     /\ quantity' = [quantity EXCEPT ![s] = @ + restocked]
     /\ allocation' = [allocation EXCEPT ![k] =
                         IF @ = NoRow THEN restocked ELSE @ + restocked]
     /\ quantity_allocated' = [quantity_allocated EXCEPT ![s] = @ + restocked]
     /\ UNCHANGED <<stockRows, reservation, expired, taskVars>>

(* increase_stock with allocate=True: a canceled fulfillment returns its    *)
(* units to a warehouse, where the line holds them again.                   *)
increase_stock(l, w, restocked) ==
  LET s == <<LineVariant[l], w>>
      had == {c \in Copies : allocation[<<l, s, c>>] # NoRow}
  IN \E c \in Copies :
     LET k == <<l, s, c>> IN
     /\ IF had = {} THEN c = 1 ELSE c \in had /\ \A d \in had : c <= d
     /\ quantity[s] + restocked <= MaxQuantity
     /\ allocation[k] + restocked <= MaxQuantity
     /\ stockRows' = stockRows \cup {s}
     /\ quantity' = [quantity EXCEPT ![s] = @ + restocked]
     /\ allocation' = [allocation EXCEPT ![k] =
                         IF @ = NoRow THEN restocked ELSE @ + restocked]
     /\ quantity_allocated' = [quantity_allocated EXCEPT ![s] = @ + restocked]
     /\ UNCHANGED <<reservation, expired, taskVars>>

(* deallocate_stock_for_orders: an order is canceled or expires.            *)
deallocate_stock_for_orders(L) ==
  /\ allocation' = [k \in Rows |->
       IF k[1] \in L /\ allocation[k] > 0 THEN 0 ELSE allocation[k]]
  /\ quantity_allocated' = [s \in Stocks |->
       quantity_allocated[s] - Total(allocation, RowsOfLines(L) \cap RowsOfStock(s))]
  /\ UNCHANGED <<stockRows, quantity, reservation, expired, taskVars>>

(* delete_order_line on an unconfirmed order: the line gives up its units   *)
(* (at most the ordered quantity) and its rows go with it (CASCADE).        *)
delete_order_line(l, ordered) ==
  /\ quantity_allocated' = [s \in Stocks |->
       quantity_allocated[s] - FirstGiven(Deallocated({l}, [m \in {l} |-> ordered]), s)]
  /\ allocation' = [k \in Rows |-> IF k[1] = l THEN NoRow ELSE allocation[k]]
  /\ sweep' = [w \in Sweeper |-> sweep[w] \ RowsOfLines({l})]
  /\ UNCHANGED <<stockRows, quantity, reservation, expired, repair>>

-----------------------------------------------------------------------------
(* _create_stock_reservations for every line of the call.                   *)
create_stock_reservations(rows, L, need) ==
  TakeInOrder(rows, L, need,
    [s \in Stocks |-> StockAllocated(allocation, s)],
    [s \in Stocks |-> StockReserved(s, L)],
    [l \in Lines |-> NoWarehouse])

(* reserve_stocks_and_preorders for the tracked lines L whose quantity was  *)
(* set, replacing their rows; the other lines of the checkout only get a    *)
(* new reserved_until.                                                      *)
reserve_stocks(L, need, lines_to_update_reservation_time) ==
  LET rows == [k \in Rows |-> IF k[1] \in L THEN NoRow ELSE reservation[k]]
      take == create_stock_reservations(rows, L, need)
  IN /\ Satisfied(L, need, take)
     /\ reservation' = Created(rows, take)
     /\ expired' = expired \ RowsOfLines(L \cup lines_to_update_reservation_time)
     /\ UNCHANGED <<stockVars, allocation, taskVars>>

(* _reserve_stocks_without_availability_check: while the payment is being   *)
(* processed each line keeps its whole quantity on the last of its stocks,  *)
(* in a row of its own next to those the line has.                          *)
reserve_without_availability_check(L, need) ==
  LET isLast(k) == k[2] \in LineStocks(k[1]) /\ \A t \in LineStocks(k[1]) : t[2] <= k[2][2]
      added == {k \in RowsOfLines(L) : isLast(k) /\ IsNextRow(reservation, k)}
  IN /\ \A l \in L : LineStocks(l) # {} => \E k \in added : k[1] = l
     /\ reservation' = [k \in Rows |->
          IF k \in added THEN need[k[1]] ELSE reservation[k]]
     /\ UNCHANGED <<stockVars, allocation, expired, taskVars>>

(* The checkout lines are deleted, by hand or with the completed checkout.  *)
delete_checkout_lines(L) ==
  /\ reservation' = [k \in Rows |-> IF k[1] \in L THEN NoRow ELSE reservation[k]]
  /\ expired' = expired \ RowsOfLines(L)

(* An order is created: from a draft, or from a checkout, which is deleted  *)
(* in the same transaction and is the one whose reservations are left out.  *)
create_order(L, need, from_checkout, check_reservations) ==
  /\ allocate_stocks(L, need, check_reservations)
  /\ IF from_checkout THEN delete_checkout_lines(SameOrder(L))
     ELSE UNCHANGED <<reservation, expired>>

(* reserved_until of a row passes.                                          *)
ReservationExpires(k) ==
  /\ reservation[k] # NoRow
  /\ expired' = expired \cup {k}
  /\ UNCHANGED <<stockVars, allocation, reservation, taskVars>>

delete_expired_reservations_task ==
  /\ reservation' = [k \in Rows |-> IF k \in expired THEN NoRow ELSE reservation[k]]
  /\ expired' = {}
  /\ UNCHANGED <<stockVars, allocation, taskVars>>

-----------------------------------------------------------------------------
(* The staff sets the quantity of a stock, creating the row if need be.     *)
update_or_create_variant_stocks(s, q) ==
  /\ stockRows' = stockRows \cup {s}
  /\ quantity' = [quantity EXCEPT ![s] = q]
  /\ UNCHANGED <<quantity_allocated, allocation, reservation, expired, taskVars>>

(* Mutant: the foreign keys to Stock do not cascade.                        *)
delete_stocks_without_cascade(S) ==
  /\ stockRows' = stockRows \ S
  /\ quantity' = [s \in Stocks |-> IF s \in S THEN 0 ELSE quantity[s]]
  /\ quantity_allocated' = [s \in Stocks |-> IF s \in S THEN 0 ELSE quantity_allocated[s]]
  /\ UNCHANGED <<allocation, reservation, expired, taskVars>>

(* delete_stocks: allocations and reservations go with the row (CASCADE).   *)
delete_stocks(S) ==
  LET gone == {k \in Rows : k[2] \in S}
  IN /\ stockRows' = stockRows \ S
     /\ quantity' = [s \in Stocks |-> IF s \in S THEN 0 ELSE quantity[s]]
     /\ quantity_allocated' =
          [s \in Stocks |-> IF s \in S THEN 0 ELSE quantity_allocated[s]]
     /\ allocation' = [k \in Rows |-> IF k \in gone THEN NoRow ELSE allocation[k]]
     /\ reservation' = [k \in Rows |-> IF k \in gone THEN NoRow ELSE reservation[k]]
     /\ expired' = expired \ gone
     /\ sweep' = [w \in Sweeper |-> sweep[w] \ gone]
     /\ repair' = [w \in Sweeper |->
          [s \in Stocks |-> IF s \in S THEN NoRow ELSE repair[w][s]]]

-----------------------------------------------------------------------------
(* delete_empty_allocations_task reads the ids of the empty rows, and       *)
(* delete_allocations deletes by id: the rows are not looked at again.      *)
EmptyRows == {k \in Rows : allocation[k] = 0}

delete_empty_allocations_read(w) ==
  /\ sweep[w] = {} /\ EmptyRows # {}
  /\ sweep' = [sweep EXCEPT ![w] = EmptyRows]
  /\ UNCHANGED <<stockVars, allocation, reservation, expired, repair>>

delete_allocations(w) ==
  /\ sweep[w] # {}
  /\ allocation' = [k \in Rows |-> IF k \in sweep[w] THEN NoRow ELSE allocation[k]]
  /\ sweep' = [v \in Sweeper |-> sweep[v] \ sweep[w]]
  /\ UNCHANGED <<stockVars, reservation, expired, repair>>

(* Mutant: only the counters that are too low are found.                    *)
MismatchedLow == {s \in stockRows : quantity_allocated[s] < StockAllocated(allocation, s)}

(* update_stocks_quantity_allocated_task reads the stocks whose counter is  *)
(* not the sum of their rows, then stock_bulk_update writes the sums read.  *)
Mismatched == {s \in stockRows : quantity_allocated[s] # StockAllocated(allocation, s)}
NothingRead == [s \in Stocks |-> NoRow]

update_quantity_allocated_read(w) ==
  /\ repair[w] = NothingRead /\ Mismatched # {}
  /\ repair' = [repair EXCEPT ![w] = [s \in Stocks |->
       IF s \in Mismatched THEN StockAllocated(allocation, s) ELSE NoRow]]
  /\ UNCHANGED <<stockVars, allocation, reservation, expired, sweep>>

stock_bulk_update(w) ==
  /\ repair[w] # NothingRead
  /\ quantity_allocated' = [s \in Stocks |->
       IF repair[w][s] # NoRow THEN repair[w][s] ELSE quantity_allocated[s]]
  /\ repair' = [repair EXCEPT ![w] = NothingRead]
  /\ UNCHANGED <<stockRows, quantity, allocation, reservation, expired, sweep>>

-----------------------------------------------------------------------------
(* The callers: any order at any time, with any of its lines, quantities up *)
(* to MaxNeed and any warehouses; a draft allocates line by line.          *)
(* OrderFulfillment.tla and CheckoutStock.tla narrow them to the API.       *)

OrdersOf(L) == {LineOrder[l] : l \in L}
Requests ==
  {L \in SUBSET Lines : L # {} /\ \A l, m \in L : LineOrder[l] = LineOrder[m]}
Quantities(L) == [L -> 1 .. MaxNeed]
HasNone(rows, L) == \A k \in RowsOfLines(L) : rows[k] = NoRow

WarehouseInit ==
  /\ stockRows = {}
  /\ quantity = [s \in Stocks |-> 0]
  /\ quantity_allocated = [s \in Stocks |-> 0]
  /\ allocation = [k \in Rows |-> NoRow]
  /\ reservation = [k \in Rows |-> NoRow]
  /\ expired = {}
  /\ sweep = [w \in Sweeper |-> {}]
  /\ repair = [w \in Sweeper |-> NothingRead]

OrderStep ==
  \E L \in Requests : \E q \in Quantities(L) :
    \/ /\ OrdersOf(L) \subseteq CheckoutOrders
       /\ create_order(L, q, TRUE, TRUE)
    \/ /\ OrdersOf(L) \cap CheckoutOrders = {} /\ Cardinality(L) = 1
       /\ create_order(L, q, FALSE, ReservationsEnabled)
    \/ HasNone(reservation, L) /\ increase_allocations(L, q)
    \/ decrease_allocations(L, q)
    \/ \E W \in [L -> Warehouses \cup {NoWarehouse}], tracked \in SUBSET L, exceed \in BOOLEAN :
         decrease_stock(L, q, W, tracked, exceed)

LineStep ==
  \E l \in Lines, q \in 1 .. MaxNeed :
    \/ HasNone(reservation, {l}) /\ \E w \in Warehouses : increase_stock(l, w, q)
    \/ Total(allocation, RowsOfLines({l})) <= q /\ delete_order_line(l, q)

CheckoutStep ==
  \E L \in Requests :
    /\ OrdersOf(L) \subseteq CheckoutOrders /\ HasNone(allocation, L)
    /\ \/ \E q \in Quantities(L), tracked \in SUBSET L :
            \E refreshed \in SUBSET (SameOrder(L) \ L) :
              reserve_stocks(tracked, q, refreshed)
       \/ \E q \in Quantities(L) : reserve_without_availability_check(L, q)
       \/ delete_checkout_lines(L) /\ UNCHANGED <<stockVars, allocation, taskVars>>

SweeperStep(w) ==
  \/ delete_empty_allocations_read(w)
  \/ delete_allocations(w)
  \/ update_quantity_allocated_read(w)
  \/ stock_bulk_update(w)

CounterInBounds ==
  \A s \in Stocks : quantity_allocated'[s] \in -MaxCounter .. MaxCounter

WarehouseNext ==
  \/ /\ \/ OrderStep
        \/ LineStep
        \/ \E L \in SUBSET Lines : deallocate_stock_for_orders(L)
     /\ CounterInBounds
  \/ CheckoutStep
  \/ \E k \in Rows : ReservationExpires(k)
  \/ delete_expired_reservations_task
  \/ \E s \in Stocks, q \in 0 .. MaxQuantity : update_or_create_variant_stocks(s, q)
  \/ \E S \in SUBSET stockRows : delete_stocks(S)
  \/ \E w \in Sweeper : SweeperStep(w)

WarehouseSpec == WarehouseInit /\ [][WarehouseNext]_vars

(* Celery beat starts each task again and again, and a task that has read   *)
(* goes on to write.                                                        *)
FairWarehouseSpec ==
  /\ WarehouseSpec
  /\ \A w \in Sweeper :
       /\ WF_vars(update_quantity_allocated_read(w))
       /\ WF_vars(stock_bulk_update(w))

-----------------------------------------------------------------------------
(* The tables are well formed: every row has its stock and is about the     *)
(* variant of its line (the foreign keys), and only reservation rows can be *)
(* expired.                                                                 *)
TypeOK ==
  /\ stockRows \subseteq Stocks
  /\ quantity \in [Stocks -> Int]
  /\ quantity_allocated \in [Stocks -> Int]
  /\ allocation \in [Rows -> Nat \cup {NoRow}]
  /\ reservation \in [Rows -> Nat \cup {NoRow}]
  /\ expired \subseteq {k \in Rows : reservation[k] # NoRow}
  /\ sweep \in [Sweeper -> SUBSET Rows]
  /\ repair \in [Sweeper -> [Stocks -> Nat \cup {NoRow}]]
  /\ \A k \in Rows : allocation[k] # NoRow \/ reservation[k] # NoRow =>
       k[2] \in stockRows /\ k[2][1] = LineVariant[k[1]]

(* The denormalised Stock.quantity_allocated, which the API shows as        *)
(* "Quantity allocated for orders." and the staff's stock updates decide    *)
(* on, is the sum of the stock's Allocation rows after every transaction.   *)
CounterMatchesRows ==
  \A s \in Stocks : quantity_allocated[s] = StockAllocated(allocation, s)

(* How many more units are allocated on a stock than lie in it.            *)
Deficit(s) == StockAllocated(allocation, s) - quantity[s]

(* "If there is less quantity in stocks then rise InsufficientStock         *)
(* exception": an allocation never promises units that are not there.  A    *)
(* stock gets into deficit, or deeper into it, only when its quantity falls *)
(* (a correction by the staff, or a shipment that may exceed the stock).    *)
AllocationsFit ==
  [][\A s \in Stocks : Deficit(s)' > 0 /\ Deficit(s)' > Deficit(s)
       => quantity'[s] < quantity[s]]_vars

(* update_stocks_quantity_allocated_task repairs the counters: whatever     *)
(* deallocate_stock, a late delete or a write of old sums has done to them, *)
(* once the shop is quiet they come to agree with the rows and stay so.     *)
QuietShopIsRepaired ==
  (<>[][\E w \in Sweeper : SweeperStep(w)]_vars) => <>[]CounterMatchesRows
=============================================================================
