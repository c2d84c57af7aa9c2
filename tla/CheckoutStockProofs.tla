------------------------- MODULE CheckoutStockProofs -------------------------
(***************************************************************************)
(* Theorems about CheckoutStock for every number of workers, checkouts,    *)
(* lines, stocks and units.                                                *)
(*                                                                         *)
(* The lock on the checkout row carries the argument: the requests that    *)
(* hold it are alone with a checkout that exists (LocksAreHeldAlone), so   *)
(* that no other request places its order in between.                      *)
(***************************************************************************)
EXTENDS CheckoutStock, WarehouseProofs

Locking == {"pre_payment", "with_transaction"}
Completing == Locking \cup {"process_payment", "post_payment"}

(* What a worker can have in memory.                                        *)
RequestOK(r) ==
  \/ r = Idle
  \/ /\ r.op = "update" /\ r.line \in Lines /\ r.quantity \in 1 .. MaxNeed
  \/ /\ r.op \in Completing /\ r.order \in CheckoutOrders
     /\ DOMAIN r.quantities \in SUBSET Lines /\ DOMAIN r.quantities # {}
     /\ r.quantities \in [DOMAIN r.quantities -> 1 .. MaxNeed]
     /\ \A l \in DOMAIN r.quantities : LineOrder[l] = r.order

RequestsOK ==
  /\ request \in [Workers -> {request[w] : w \in Workers}]
  /\ \A w \in Workers : RequestOK(request[w])

IsLocking(w, o) == request[w].op \in Locking /\ request[w].order = o

LocksAreHeldAlone ==
  \A w \in Workers, o \in CheckoutOrders : IsLocking(w, o) =>
    Exists(o) /\ \A v \in Workers : IsLocking(v, o) => v = w

(* A line belongs to the checkout or, once it is placed, to its order.      *)
LinesMove ==
  \A l \in Lines :
    IF Exists(LineOrder[l]) THEN HasNone(allocation, {l})
    ELSE wanted[l] = 0 /\ HasNone(reservation, {l})

CheckoutInv ==
  CheckoutTypeOK /\ RequestsOK /\ OneOrderPerCheckout /\ LocksAreHeldAlone /\ LinesMove

(* Nothing is read, reserved or ordered in the beginning.                   *)
LEMMA InitCheckout == Init => CheckoutInv
<1> SUFFICES ASSUME Init PROVE CheckoutInv
  OBVIOUS
<1>1. CheckoutTypeOK
  BY InitTypes, BoundAssumption DEF Init, CheckoutTypeOK
<1>2. RequestsOK
  BY DEF Init, RequestsOK, RequestOK
<1>3. OneOrderPerCheckout
  BY DEF Init, OneOrderPerCheckout
<1>4. LocksAreHeldAlone
  BY DEF Init, LocksAreHeldAlone, IsLocking, Locking, Idle
<1>5. LinesMove
  <2> SUFFICES ASSUME NEW l \in Lines PROVE HasNone(allocation, {l}) /\ Exists(LineOrder[l])
    BY DEF LinesMove
  <2>1. HasNone(allocation, {l})
    BY RowSets DEF Init, WarehouseInit, HasNone
  <2> QED BY <2>1, CheckoutLinesAssumption DEF Init, Exists
<1> QED BY <1>1, <1>2, <1>3, <1>4, <1>5 DEF CheckoutInv

(* A step that only changes what a worker has in memory.                    *)
LEMMA ProceedKeeps ==
  ASSUME CheckoutInv, NEW w \in Workers, NEW r, RequestOK(r), Proceed(w, r),
         UNCHANGED <<vars, wanted, placed>>,
         r # Idle /\ r.op \in Locking =>
           \/ request[w].op = r.op /\ request[w].order = r.order
           \/ Exists(r.order) /\ ~Locked(r.order)
  PROVE  CheckoutInv'
<1>1. CheckoutTypeOK' /\ OneOrderPerCheckout' /\ LinesMove'
  BY DEF CheckoutInv, CheckoutTypeOK, TypeOK, OneOrderPerCheckout, LinesMove, HasNone, Exists,
         vars, stockVars, taskVars
<1>2. /\ request' = [request EXCEPT ![w] = r]
      /\ request \in [Workers -> {request[v] : v \in Workers}]
      /\ \A v \in Workers : RequestOK(request[v])
  BY DEF Proceed, CheckoutInv, RequestsOK
<1>3. \A v \in Workers : request'[v] = IF v = w THEN r ELSE request[v]
  BY <1>2
<1>4. RequestsOK'
  BY <1>2, <1>3 DEF RequestsOK, RequestOK, Idle
<1>5. LocksAreHeldAlone'
  <2> SUFFICES ASSUME NEW v \in Workers, NEW o \in CheckoutOrders, IsLocking(v, o)'
               PROVE  Exists(o)' /\ \A u \in Workers : IsLocking(u, o)' => u = v
    BY DEF LocksAreHeldAlone
  <2>1. r # Idle \/ ~(r.op \in Locking)
    BY DEF Idle, Locking
  <2>2. \A u \in Workers : u # w => (IsLocking(u, o)' <=> IsLocking(u, o))
    BY <1>3 DEF IsLocking
  <2>3. IsLocking(w, o)' => r.op \in Locking /\ r.order = o
    BY <1>3 DEF IsLocking
  <2>4. Locked(o) <=> \E u \in Workers : IsLocking(u, o)
    BY DEF Locked, IsLocking, Locking
  <2>5. Exists(o)' <=> Exists(o)
    BY DEF Exists
  <2>6. LocksAreHeldAlone
    BY DEF CheckoutInv
  <2> QED BY <2>1, <2>2, <2>3, <2>4, <2>5, <2>6 DEF LocksAreHeldAlone, IsLocking
<1> QED BY <1>1, <1>4, <1>5 DEF CheckoutInv

-----------------------------------------------------------------------------
(* The rows reserve_stocks leaves: those of the other lines are untouched.  *)
LEMMA ReserveTouchesItsLines ==
  ASSUME TypeOK, NEW L \in SUBSET Lines, NEW need, \A l \in L : need[l] \in Int, NEW others,
         reserve_stocks(L, need, others), NEW l \in Lines \ L, HasNone(reservation, {l})
  PROVE  HasNone(reservation', {l})
<1> DEFINE rows == [k \in Rows |-> IF k[1] \in L THEN NoRow ELSE reservation[k]]
           take == create_stock_reservations(rows, L, need)
<1>1. reservation' = Created(rows, take)
  BY DEF reserve_stocks
<1> SUFFICES ASSUME NEW k \in RowsOfLines({l}) PROVE reservation'[k] = NoRow
  BY DEF HasNone
<1>2. k \in Rows /\ k[1] = l
  BY RowSets
<1>3. take[k] = 0
  BY <1>2 DEF create_stock_reservations, TakeInOrder
<1>4. rows[k] = NoRow
  BY <1>2 DEF HasNone
<1> HIDE DEF take, rows
<1> QED BY <1>1, <1>2, <1>3, <1>4 DEF Created

(* A finished request holds no lock and promises nothing.                   *)
LEMMA FinishKeeps ==
  ASSUME CheckoutInv, NEW w \in Workers, Finish(w)
  PROVE  /\ RequestsOK'
         /\ \A v \in Workers, o \in CheckoutOrders : IsLocking(v, o)' => v # w /\ IsLocking(v, o)
<1>1. /\ request' = [request EXCEPT ![w] = Idle]
      /\ request \in [Workers -> {request[v] : v \in Workers}]
      /\ \A v \in Workers : RequestOK(request[v])
  BY DEF Finish, Proceed, CheckoutInv, RequestsOK
<1>2. \A v \in Workers : request'[v] = IF v = w THEN Idle ELSE request[v]
  BY <1>1
<1>3. RequestsOK'
  BY <1>1, <1>2 DEF RequestsOK, RequestOK, Idle
<1>4. \A v \in Workers, o \in CheckoutOrders : IsLocking(v, o)' => v # w /\ IsLocking(v, o)
  BY <1>2 DEF IsLocking, Locking, Idle
<1> QED BY <1>3, <1>4

(* add_variants_to_checkout: only a checkout that exists reserves.          *)
LEMMA AddVariantsKeeps ==
  ASSUME CheckoutInv, NEW w \in Workers, add_variants_to_checkout(w)
  PROVE  CheckoutInv'
<1> DEFINE r == request[w]
           need == [m \in {r.line} |-> r.quantity]
           others == CheckoutLines(LineOrder[r.line]) \ {r.line}
<1>1. /\ r.op = "update" /\ Exists(LineOrder[r.line])
      /\ wanted' = [wanted EXCEPT ![r.line] = r.quantity]
      /\ IF ReservationsEnabled THEN reserve_stocks({r.line}, need, others) ELSE UNCHANGED vars
      /\ Finish(w) /\ UNCHANGED placed
  BY DEF add_variants_to_checkout
<1>2. r.line \in Lines /\ r.quantity \in 1 .. MaxNeed
  BY <1>1 DEF CheckoutInv, RequestsOK, RequestOK, Completing, Locking, Idle
<1>3. others \in SUBSET Lines /\ {r.line} \in SUBSET Lines /\ \A m \in {r.line} : need[m] \in Int
  BY <1>2, BoundAssumption DEF CheckoutLines
<1>4. TypeOK'
  <2>1. CASE ReservationsEnabled
    <3>1. TypeOK /\ reserve_stocks({r.line}, need, others)
      BY <1>1, <2>1 DEF CheckoutInv, CheckoutTypeOK
    <3> HIDE DEF r, need, others
    <3> QED BY <3>1, <1>3, ReserveTypes
  <2>2. CASE ~ReservationsEnabled
    BY <1>1, <2>2 DEF CheckoutInv, CheckoutTypeOK, TypeOK, vars, stockVars, taskVars
  <2> QED BY <2>1, <2>2
<1>5. CheckoutTypeOK'
  BY <1>1, <1>2, <1>4, BoundAssumption DEF CheckoutInv, CheckoutTypeOK
<1>6. OneOrderPerCheckout'
  BY <1>1 DEF CheckoutInv, OneOrderPerCheckout
<1>7. RequestsOK' /\ LocksAreHeldAlone'
  BY <1>1, FinishKeeps DEF CheckoutInv, LocksAreHeldAlone, Exists
<1>8. LinesMove'
  <2> SUFFICES ASSUME NEW l \in Lines
               PROVE  IF Exists(LineOrder[l]) THEN HasNone(allocation', {l})
                      ELSE wanted'[l] = 0 /\ HasNone(reservation', {l})
    BY <1>1 DEF LinesMove, Exists, HasNone
  <2>1. IF Exists(LineOrder[l]) THEN HasNone(allocation, {l})
        ELSE wanted[l] = 0 /\ HasNone(reservation, {l})
    BY DEF CheckoutInv, LinesMove
  <2>2. allocation' = allocation
    BY <1>1 DEF reserve_stocks, vars
  <2>3. CASE Exists(LineOrder[l])
    BY <2>1, <2>2, <2>3
  <2>4. CASE ~Exists(LineOrder[l])
    <3>1. l # r.line
      BY <1>1, <2>4
    <3>2. wanted'[l] = 0
      BY <1>1, <2>1, <2>4, <3>1 DEF CheckoutInv, CheckoutTypeOK
    <3>3. CASE ReservationsEnabled
      <4>1. TypeOK /\ reserve_stocks({r.line}, need, others) /\ HasNone(reservation, {l})
        BY <1>1, <2>1, <2>4, <3>3 DEF CheckoutInv, CheckoutTypeOK
      <4>2. l \in Lines \ {r.line}
        BY <3>1
      <4> HIDE DEF r, need, others
      <4>3. HasNone(reservation', {l})
        BY <1>3, <4>1, <4>2, ReserveTouchesItsLines
      <4> QED BY <2>4, <3>2, <4>3
    <3>4. CASE ~ReservationsEnabled
      BY <1>1, <2>1, <2>4, <3>2, <3>4 DEF vars
    <3> QED BY <3>3, <3>4
  <2> QED BY <2>3, <2>4
<1> QED BY <1>5, <1>6, <1>7, <1>8 DEF CheckoutInv

(* checkout_line_delete, which takes no lock.                               *)
LEMMA LineDeleteKeeps ==
  ASSUME CheckoutInv, NEW l \in Lines, checkout_line_delete(l)
  PROVE  CheckoutInv'
<1>1. /\ wanted' = [wanted EXCEPT ![l] = 0]
      /\ reservation' = [k \in Rows |-> IF k[1] \in {l} THEN NoRow ELSE reservation[k]]
      /\ expired' = expired \ RowsOfLines({l})
      /\ UNCHANGED <<stockVars, allocation, taskVars, placed, request>>
  BY DEF checkout_line_delete, delete_checkout_lines
<1>2. TypeOK'
  BY <1>1, RowSets DEF CheckoutInv, CheckoutTypeOK, TypeOK, stockVars, taskVars
<1>3. CheckoutTypeOK'
  BY <1>1, <1>2, BoundAssumption DEF CheckoutInv, CheckoutTypeOK
<1>4. OneOrderPerCheckout' /\ RequestsOK' /\ LocksAreHeldAlone'
  BY <1>1 DEF CheckoutInv, OneOrderPerCheckout, RequestsOK, LocksAreHeldAlone, IsLocking, Exists
<1>5. LinesMove'
  <2> SUFFICES ASSUME NEW m \in Lines
               PROVE  IF Exists(LineOrder[m]) THEN HasNone(allocation, {m})
                      ELSE wanted'[m] = 0 /\ HasNone(reservation', {m})
    BY <1>1 DEF LinesMove, Exists, HasNone
  <2>1. IF Exists(LineOrder[m]) THEN HasNone(allocation, {m})
        ELSE wanted[m] = 0 /\ HasNone(reservation, {m})
    BY DEF CheckoutInv, LinesMove
  <2>2. wanted[m] = 0 => wanted'[m] = 0
    BY <1>1 DEF CheckoutInv, CheckoutTypeOK
  <2>3. HasNone(reservation, {m}) => HasNone(reservation', {m})
    BY <1>1, RowSets DEF HasNone
  <2> QED BY <2>1, <2>2, <2>3
<1> QED BY <1>3, <1>4, <1>5 DEF CheckoutInv

(* reserve_during_payment: the lock is held, so the checkout exists.        *)
LEMMA ReserveDuringPaymentKeeps ==
  ASSUME CheckoutInv, NEW w \in Workers, reserve_during_payment(w)
  PROVE  CheckoutInv'
<1> DEFINE r == request[w]
           L == DOMAIN r.quantities
           next == [r EXCEPT !.op = "process_payment"]
           added == {k \in RowsOfLines(L) :
                       /\ k[2] \in LineStocks(k[1]) /\ \A t \in LineStocks(k[1]) : t[2] <= k[2][2]
                       /\ IsNextRow(reservation, k)}
<1>1. /\ r.op = "pre_payment"
      /\ reserve_without_availability_check(L, r.quantities)
      /\ request' = [request EXCEPT ![w] = next]
      /\ UNCHANGED <<wanted, placed>>
  BY DEF reserve_during_payment, Proceed
<1>2. /\ r.order \in CheckoutOrders /\ L \in SUBSET Lines /\ L # {}
      /\ r.quantities \in [L -> 1 .. MaxNeed]
      /\ \A l \in L : LineOrder[l] = r.order
  BY <1>1 DEF CheckoutInv, RequestsOK, RequestOK, Idle
<1>3. r.quantities \in [L -> Nat]
  BY <1>2, BoundAssumption
<1>4. TypeOK'
  <2>1. TypeOK
    BY DEF CheckoutInv, CheckoutTypeOK
  <2> HIDE DEF L
  <2> QED BY <1>1, <1>2, <1>3, <2>1, ReserveWithoutCheckTypes
<1>5. CheckoutTypeOK' /\ OneOrderPerCheckout'
  BY <1>1, <1>4 DEF CheckoutInv, CheckoutTypeOK, OneOrderPerCheckout
<1>6. IsLocking(w, r.order) /\ Exists(r.order)
  BY <1>1, <1>2 DEF CheckoutInv, LocksAreHeldAlone, IsLocking, Locking
<1>7. /\ next.op = "process_payment" /\ next.order = r.order /\ next.quantities = r.quantities
      /\ next # Idle
  BY <1>1, <1>2 DEF CheckoutInv, RequestsOK, RequestOK, Idle
<1>8. \A v \in Workers : request'[v] = IF v = w THEN next ELSE request[v]
  BY <1>1 DEF CheckoutInv, RequestsOK
<1>9. RequestsOK'
  <2>1. RequestOK(next)
    BY <1>2, <1>7 DEF RequestOK, Completing
  <2>2. \A v \in Workers : RequestOK(request[v])
    BY DEF CheckoutInv, RequestsOK
  <2>3. request' \in [Workers -> {request'[v] : v \in Workers}]
    BY <1>1 DEF CheckoutInv, RequestsOK
  <2> HIDE DEF next
  <2>4. \A v \in Workers : RequestOK(request'[v])
    BY <1>8, <2>1, <2>2
  <2> QED BY <2>3, <2>4 DEF RequestsOK, RequestOK, Idle
<1>10. LocksAreHeldAlone'
  <2>1. \A v \in Workers, o \in CheckoutOrders : IsLocking(v, o)' => v # w /\ IsLocking(v, o)
    BY <1>7, <1>8 DEF IsLocking, Locking
  <2> QED BY <1>1, <2>1 DEF CheckoutInv, LocksAreHeldAlone, Exists
<1>11. LinesMove'
  <2> SUFFICES ASSUME NEW l \in Lines
               PROVE  IF Exists(LineOrder[l]) THEN HasNone(allocation', {l})
                      ELSE wanted[l] = 0 /\ HasNone(reservation', {l})
    BY <1>1 DEF LinesMove, Exists, HasNone
  <2>1. IF Exists(LineOrder[l]) THEN HasNone(allocation, {l})
        ELSE wanted[l] = 0 /\ HasNone(reservation, {l})
    BY DEF CheckoutInv, LinesMove
  <2>2. allocation' = allocation
    BY <1>1 DEF reserve_without_availability_check
  <2>3. ASSUME ~Exists(LineOrder[l]) PROVE HasNone(reservation', {l})
    <3>1. l \notin L
      BY <1>2, <1>6, <2>3
    <3>2. reservation' = [k \in Rows |-> IF k \in added THEN r.quantities[k[1]] ELSE reservation[k]]
      BY <1>1 DEF reserve_without_availability_check
    <3>3. \A k \in RowsOfLines({l}) : k \in Rows /\ k[1] = l /\ reservation[k] = NoRow
      BY <2>1, <2>3, RowSets DEF HasNone
    <3>4. \A k \in added : k[1] \in L
      BY <1>2, RowSets
    <3> HIDE DEF added, L
    <3> QED BY <3>1, <3>2, <3>3, <3>4 DEF HasNone
  <2> QED BY <2>1, <2>2, <2>3
<1> QED BY <1>5, <1>9, <1>10, <1>11 DEF CheckoutInv

(* place_order of a checkout that exists and that nobody else has locked:   *)
(* its reservations end where its allocations begin.                        *)
LEMMA PlaceOrderKeeps ==
  ASSUME CheckoutInv, NEW w \in Workers, request[w].op \in {"with_transaction", "post_payment"},
         Exists(request[w].order),
         \A v \in Workers : IsLocking(v, request[w].order) => v = w,
         place_order(w)
  PROVE  CheckoutInv'
<1> DEFINE r == request[w]
           L == DOMAIN r.quantities
<1>1. /\ create_order(L, r.quantities, TRUE, TRUE)
      /\ placed' = [placed EXCEPT ![r.order] = @ + 1]
      /\ wanted' = [l \in Lines |-> IF LineOrder[l] = r.order THEN 0 ELSE wanted[l]]
      /\ Finish(w)
  BY DEF place_order
<1>2. /\ r.order \in CheckoutOrders /\ L \in SUBSET Lines /\ L # {}
      /\ r.quantities \in [L -> 1 .. MaxNeed]
      /\ \A l \in L : LineOrder[l] = r.order
  BY DEF CheckoutInv, RequestsOK, RequestOK, Idle
<1>3. r.quantities \in [L -> Int]
  BY <1>2, BoundAssumption
<1>4. TypeOK'
  <2>1. TypeOK
    BY DEF CheckoutInv, CheckoutTypeOK
  <2> HIDE DEF L
  <2> QED BY <1>1, <1>2, <1>3, <2>1, CreateOrderTypes
<1>5. /\ placed[r.order] = 0 /\ placed \in [CheckoutOrders -> Nat]
      /\ \A o \in CheckoutOrders : placed'[o] = IF o = r.order THEN 1 ELSE placed[o]
  BY <1>1, <1>2 DEF CheckoutInv, CheckoutTypeOK, Exists
<1>6. CheckoutTypeOK'
  <2>1. wanted' \in [Lines -> 0 .. MaxNeed]
    BY <1>1, BoundAssumption DEF CheckoutInv, CheckoutTypeOK
  <2>2. placed' \in [CheckoutOrders -> Nat]
    BY <1>1, <1>2, <1>5
  <2> QED BY <1>4, <2>1, <2>2 DEF CheckoutTypeOK
<1>7. OneOrderPerCheckout'
  BY <1>5 DEF CheckoutInv, OneOrderPerCheckout
<1>8. RequestsOK' /\ \A v \in Workers, o \in CheckoutOrders : IsLocking(v, o)' => v # w /\ IsLocking(v, o)
  BY <1>1, FinishKeeps
<1>9. LocksAreHeldAlone'
  BY <1>2, <1>5, <1>8 DEF CheckoutInv, LocksAreHeldAlone, Exists
<1>10. LinesMove'
  <2> SUFFICES ASSUME NEW l \in Lines
               PROVE  IF Exists(LineOrder[l])' THEN HasNone(allocation', {l})
                      ELSE wanted'[l] = 0 /\ HasNone(reservation', {l})
    BY DEF LinesMove, HasNone
  <2>1. IF Exists(LineOrder[l]) THEN HasNone(allocation, {l})
        ELSE wanted[l] = 0 /\ HasNone(reservation, {l})
    BY DEF CheckoutInv, LinesMove
  <2>2. LineOrder[l] \in CheckoutOrders
    BY CheckoutLinesAssumption
  <2>3. SameOrder(L) = {m \in Lines : LineOrder[m] = r.order}
    BY <1>2 DEF SameOrder
  <2>4. reservation' = [k \in Rows |-> IF k[1] \in SameOrder(L) THEN NoRow ELSE reservation[k]]
    BY <1>1 DEF create_order, delete_checkout_lines
  <2>5. \A k \in RowsOfLines({l}) : k \in Rows /\ k[1] = l
    BY RowSets
  <2>6. CASE LineOrder[l] = r.order
    <3>1. ~Exists(LineOrder[l])' /\ wanted'[l] = 0
      BY <1>1, <1>5, <2>2, <2>6 DEF Exists
    <3>2. HasNone(reservation', {l})
      BY <2>3, <2>4, <2>5, <2>6 DEF HasNone
    <3> QED BY <3>1, <3>2
  <2>7. CASE LineOrder[l] # r.order
    <3>1. Exists(LineOrder[l])' <=> Exists(LineOrder[l])
      BY <1>5, <2>2, <2>7 DEF Exists
    <3>2. wanted[l] = 0 => wanted'[l] = 0
      BY <1>1
    <3>3. HasNone(reservation, {l}) => HasNone(reservation', {l})
      BY <2>4, <2>5 DEF HasNone
    <3>4. HasNone(allocation, {l}) => HasNone(allocation', {l})
      <4> DEFINE take == create_allocations(allocation, L, r.quantities, TRUE)
      <4>1. allocation' = Created(allocation, take)
        BY <1>1 DEF create_order, allocate_stocks
      <4>2. \A k \in RowsOfLines({l}) : take[k] = 0
        BY <1>2, <2>5, <2>7 DEF create_allocations, TakeInOrder
      <4> HIDE DEF take
      <4>3. ASSUME NEW k \in RowsOfLines({l}) PROVE allocation'[k] = allocation[k]
        <5>1. k \in Rows /\ ~(take[k] > 0)
          BY <2>5, <4>2
        <5> QED BY <4>1, <5>1 DEF Created
      <4> QED BY <4>3 DEF HasNone
    <3> QED BY <2>1, <3>1, <3>2, <3>3, <3>4
  <2> QED BY <2>6, <2>7
<1> QED BY <1>6, <1>7, <1>8, <1>9, <1>10 DEF CheckoutInv

(* Every step keeps the invariant, one case per operation.                  *)
LEMMA NextCheckout == CheckoutInv /\ [Next]_allVars => CheckoutInv'
<1> SUFFICES ASSUME CheckoutInv, [Next]_allVars PROVE CheckoutInv'
  OBVIOUS
<1>1. ASSUME NEW w \in Workers, NEW l \in Lines, NEW q \in 1 .. MaxNeed,
             validate_checkout_lines(w, l, q)
      PROVE  CheckoutInv'
  <2> DEFINE r == [op |-> "update", line |-> l, quantity |-> q]
  <2>1. RequestOK(r) /\ Proceed(w, r) /\ UNCHANGED <<vars, wanted, placed>> /\ r.op \notin Locking
    BY <1>1 DEF validate_checkout_lines, RequestOK, Locking
  <2> HIDE DEF r
  <2> QED BY <2>1, ProceedKeeps
<1>2. ASSUME NEW w \in Workers, add_variants_to_checkout(w) PROVE CheckoutInv'
  BY <1>2, AddVariantsKeeps
<1>3. ASSUME NEW l \in Lines, checkout_line_delete(l) PROVE CheckoutInv'
  BY <1>3, LineDeleteKeeps
<1>4. ASSUME NEW w \in Workers, NEW o \in CheckoutOrders, NEW op \in Locking,
             create_lines_for_order(w, o, op)
      PROVE  CheckoutInv'
  <2> DEFINE L == CheckoutLines(o)
             r == [op |-> op, order |-> o, quantities |-> [l \in L |-> wanted[l]]]
  <2>1. Proceed(w, r) /\ UNCHANGED <<vars, wanted, placed>> /\ Exists(o) /\ ~Locked(o) /\ L # {}
    BY <1>4 DEF create_lines_for_order
  <2>2. /\ L \in SUBSET Lines
        /\ \A l \in L : LineOrder[l] = o /\ wanted[l] \in 1 .. MaxNeed
    BY BoundAssumption DEF CheckoutLines, CheckoutInv, CheckoutTypeOK
  <2>3. RequestOK(r) /\ r.order = o
    BY <2>1, <2>2 DEF RequestOK, Completing
  <2> HIDE DEF r, L
  <2> QED BY <2>1, <2>3, ProceedKeeps
<1>5. ASSUME NEW w \in Workers, reserve_during_payment(w) PROVE CheckoutInv'
  BY <1>5, ReserveDuringPaymentKeeps
<1>6. ASSUME NEW w \in Workers, process_payment(w) PROVE CheckoutInv'
  <2> DEFINE r == [request[w] EXCEPT !.op = "post_payment"]
  <2>1. Proceed(w, r) /\ UNCHANGED <<vars, wanted, placed>> /\ request[w].op = "process_payment"
    BY <1>6 DEF process_payment
  <2>2. RequestOK(request[w])
    BY DEF CheckoutInv, RequestsOK
  <2>3. /\ r.op = "post_payment" /\ r.order = request[w].order
        /\ r.quantities = request[w].quantities
    BY <2>1, <2>2 DEF RequestOK, Idle
  <2>4. RequestOK(r) /\ r.op \notin Locking
    BY <2>1, <2>2, <2>3 DEF RequestOK, Completing, Locking, Idle
  <2> HIDE DEF r
  <2> QED BY <2>1, <2>4, ProceedKeeps
<1>7. ASSUME NEW w \in Workers, create_order_from_checkout(w) PROVE CheckoutInv'
  <2>1. request[w].op = "with_transaction" /\ place_order(w)
    BY <1>7 DEF create_order_from_checkout
  <2>2. request[w].order \in CheckoutOrders
    BY <2>1 DEF CheckoutInv, RequestsOK, RequestOK, Idle
  <2>3. IsLocking(w, request[w].order) /\ LocksAreHeldAlone
    BY <2>1 DEF CheckoutInv, IsLocking, Locking
  <2>4. /\ Exists(request[w].order)
        /\ \A v \in Workers : IsLocking(v, request[w].order) => v = w
    BY <2>2, <2>3 DEF LocksAreHeldAlone
  <2> QED BY <2>1, <2>4, PlaceOrderKeeps
<1>8. ASSUME NEW w \in Workers, complete_checkout_post_payment_part(w) PROVE CheckoutInv'
  <2>1. /\ request[w].op = "post_payment" /\ place_order(w) /\ Exists(request[w].order)
        /\ \A v \in Workers : ~IsLocking(v, request[w].order)
    BY <1>8 DEF complete_checkout_post_payment_part, Locked, IsLocking, Locking
  <2> QED BY <2>1, PlaceOrderKeeps
<1>9. ASSUME NEW w \in Workers, return_placed_order(w) \/ RequestFails(w) PROVE CheckoutInv'
  <2>1. Proceed(w, Idle) /\ UNCHANGED <<vars, wanted, placed>> /\ RequestOK(Idle)
    BY <1>9 DEF return_placed_order, RequestFails, Finish, RequestOK
  <2> QED BY <2>1, ProceedKeeps
<1>10. CASE StaffSetsQuantity \/ ReservationsEnd
  <2>1. [WarehouseNext]_vars /\ UNCHANGED checkoutVars /\ allocation' = allocation
    BY <1>10 DEF StaffSetsQuantity, ReservationsEnd, WarehouseNext, ReservationExpires,
       delete_expired_reservations_task, update_or_create_variant_stocks
  <2>2. TypeOK'
    BY <2>1, NextTypes DEF CheckoutInv, CheckoutTypeOK
  <2>3. CheckoutTypeOK' /\ RequestsOK' /\ OneOrderPerCheckout' /\ LocksAreHeldAlone'
    BY <2>1, <2>2 DEF checkoutVars, CheckoutInv, CheckoutTypeOK, RequestsOK,
       OneOrderPerCheckout, LocksAreHeldAlone, IsLocking, Exists
  <2>4. \A l \in Lines : HasNone(reservation, {l}) => HasNone(reservation', {l})
    BY <1>10, RowSets DEF StaffSetsQuantity, ReservationsEnd, ReservationExpires,
       delete_expired_reservations_task, update_or_create_variant_stocks, HasNone
  <2>5. LinesMove'
    BY <2>1, <2>4 DEF checkoutVars, CheckoutInv, LinesMove, Exists, HasNone
  <2> QED BY <2>3, <2>5 DEF CheckoutInv
<1>11. CASE UNCHANGED allVars
  <2>1. UNCHANGED vars /\ UNCHANGED checkoutVars
    BY <1>11 DEF allVars
  <2>2. UNCHANGED <<wanted, placed, request, allocation, reservation>>
    BY <2>1 DEF vars, stockVars, checkoutVars
  <2>3. TypeOK'
    BY <2>1, NextTypes DEF CheckoutInv, CheckoutTypeOK
  <2>4. CheckoutTypeOK' /\ RequestsOK' /\ OneOrderPerCheckout'
    BY <2>2, <2>3 DEF CheckoutInv, CheckoutTypeOK, RequestsOK, OneOrderPerCheckout
  <2>5. LocksAreHeldAlone' /\ LinesMove'
    BY <2>2 DEF CheckoutInv, LocksAreHeldAlone, IsLocking, LinesMove, HasNone, Exists
  <2> QED BY <2>4, <2>5 DEF CheckoutInv
<1>12. ASSUME NEW w \in Workers, CompletionStep(w) PROVE CheckoutInv'
  BY <1>4, <1>5, <1>6, <1>7, <1>8, <1>9, <1>12 DEF CompletionStep, Locking
<1> QED
  BY <1>1, <1>2, <1>3, <1>9, <1>10, <1>11, <1>12 DEF Next

-----------------------------------------------------------------------------
LEMMA CheckoutInvHolds == Spec => []CheckoutInv
BY InitCheckout, NextCheckout, PTL DEF Spec

(* The tables of checkouts, and those of the stock under them, stay well    *)
(* formed however the requests of any number of workers interleave.         *)
THEOREM CheckoutsAreWellFormed == Spec => []CheckoutTypeOK
<1>1. CheckoutInv => CheckoutTypeOK
  BY DEF CheckoutInv
<1> QED BY <1>1, CheckoutInvHolds, PTL

(* complete_checkout never makes a second order, whatever the number of     *)
(* workers that complete the same checkout, by either flow.                 *)
THEOREM CheckoutIsPlacedOnce == Spec => []OneOrderPerCheckout
<1>1. CheckoutInv => OneOrderPerCheckout
  BY DEF CheckoutInv
<1> QED BY <1>1, CheckoutInvHolds, PTL

(* The reservations of a checkout end with the transaction that allocates   *)
(* for its order, and none comes back.                                      *)
THEOREM OrderedIsNotReserved == Spec => []PlacedHoldsNoReservation
<1>1. CheckoutInv => PlacedHoldsNoReservation
  BY DEF CheckoutInv, LinesMove, Exists, PlacedHoldsNoReservation
<1> QED BY <1>1, CheckoutInvHolds, PTL

-----------------------------------------------------------------------------
(* The transactions of checkouts are transactions of the warehouse.         *)

(* A checkout is ordered once, so that each of its lines has one row on a   *)
(* stock, of at most the quantity it was ordered in.                        *)
AllocatedOnce ==
  \A k \in Rows : allocation[k] <= MaxNeed /\ (allocation[k] # NoRow => k[3] = 1)

(* place_order counts what it allocates, and allocates each line once.      *)
LEMMA PlaceOrderCounts ==
  ASSUME CheckoutInv, CounterMatchesRows, AllocatedOnce,
         NEW w \in Workers, request[w].op \in {"with_transaction", "post_payment"},
         Exists(request[w].order), place_order(w)
  PROVE  CounterMatchesRows' /\ AllocatedOnce'
<1> DEFINE r == request[w]
           L == DOMAIN r.quantities
           take == create_allocations(allocation, L, r.quantities, TRUE)
<1>1. allocate_stocks(L, r.quantities, TRUE)
  BY DEF place_order, create_order
<1>2. /\ L \in SUBSET Lines /\ r.quantities \in [L -> 1 .. MaxNeed]
      /\ \A l \in L : LineOrder[l] = r.order
  BY DEF CheckoutInv, RequestsOK, RequestOK, Idle
<1>3. r.quantities \in [L -> Int] /\ TypeOK /\ allocation \in [Rows -> RowValue]
  BY <1>2, BoundAssumption DEF CheckoutInv, CheckoutTypeOK, TypeOK, RowValue
<1>4. allocation' = Created(allocation, take) /\ Satisfied(L, r.quantities, take)
  BY <1>1 DEF allocate_stocks
<1>5. \A k \in Rows : k[1] \in L => allocation[k] = NoRow
  BY <1>2, RowSets DEF CheckoutInv, LinesMove, HasNone
<1>6. \A k \in Rows : take[k] > 0 => k[1] \in L /\ IsNextRow(allocation, k)
  BY DEF create_allocations, TakeInOrder
<1>7. take \in [Rows -> Nat]
  <2> HIDE DEF L
  <2> QED BY <1>2, <1>3, AllocationRows
<1>8. CounterMatchesRows'
  <2> HIDE DEF L
  <2> QED BY <1>1, <1>2, <1>3, AllocateCounts
<1> HIDE DEF take
<1>9. ASSUME NEW k \in Rows, take[k] > 0 PROVE take[k] <= MaxNeed /\ k[3] = 1
  <2>1. k[1] \in L /\ k[3] \in Copies /\ IsNextRow(allocation, k) /\ k \in RowsOfLines({k[1]})
    BY <1>6, <1>9 DEF Rows, RowsOfLines
  <2>2. RowsOfLines({k[1]}) \in SUBSET Rows /\ IsFiniteSet(RowsOfLines({k[1]}))
    BY <1>2, <2>1, RowSets, RowsAreFinite
  <2>3. Total(take, RowsOfLines({k[1]})) = r.quantities[k[1]]
    BY <1>4, <2>1 DEF Satisfied
  <2>4. \A j \in RowsOfLines({k[1]}) : take[j] \in Int
    BY <1>7, <2>2
  <2>5. take[k] <= Total(take, RowsOfLines({k[1]}))
    <3> DEFINE K == RowsOfLines({k[1]})
    <3>1. k \in K /\ IsFiniteSet(K) /\ \A j \in K : take[j] \in Int
      BY <2>1, <2>2, <2>4
    <3> HIDE DEF K
    <3>2. /\ Total(take, K \ {k}) \in Nat
          /\ Total(take, K) = Total(take, K \ {k}) + (IF take[k] > 0 THEN take[k] ELSE 0)
      BY <3>1, TotalWithout
    <3>3. take[k] <= Total(take, K)
      BY <1>7, <1>9, <3>2
    <3> QED BY <3>3 DEF K
  <2>6. r.quantities[k[1]] \in 1 .. MaxNeed
    BY <1>2, <2>1
  <2>7. take[k] <= MaxNeed
    BY <1>7, <2>3, <2>5, <2>6, BoundAssumption
  <2>8. k[3] = 1
    <3>1. SUFFICES ASSUME k[3] # 1 PROVE FALSE
      OBVIOUS
    <3>2. 1 \in Copies /\ 1 < k[3]
      BY <2>1, <3>1, CopiesAssumption DEF Copies
    <3>3. <<k[1], k[2], 1>> \in Rows
      BY <3>2 DEF Rows
    <3>4. allocation[<<k[1], k[2], 1>>] # NoRow
      BY <2>1, <3>2 DEF IsNextRow
    <3> QED BY <1>5, <2>1, <3>3, <3>4
  <2> QED BY <2>7, <2>8
<1>10. AllocatedOnce'
  BY <1>4, <1>9 DEF Created, AllocatedOnce
<1> QED BY <1>8, <1>10

(* The other requests leave the allocations and their counters alone.       *)
LEMMA OnlyPlacingAllocates ==
  ASSUME CheckoutInv, [Next]_allVars
  PROVE  \/ UNCHANGED <<allocation, quantity_allocated>>
         \/ \E w \in Workers : /\ request[w].op \in {"with_transaction", "post_payment"}
                               /\ Exists(request[w].order) /\ place_order(w)
<1> DEFINE Same == UNCHANGED <<allocation, quantity_allocated>>
<1>1. ASSUME UNCHANGED vars PROVE Same
  BY <1>1 DEF vars, stockVars
<1>2. ASSUME NEW w \in Workers, add_variants_to_checkout(w) PROVE Same
  BY <1>1, <1>2 DEF add_variants_to_checkout, reserve_stocks, stockVars
<1>3. ASSUME NEW l \in Lines, checkout_line_delete(l) PROVE Same
  BY <1>3 DEF checkout_line_delete, stockVars
<1>4. ASSUME NEW w \in Workers, reserve_during_payment(w) PROVE Same
  BY <1>4 DEF reserve_during_payment, reserve_without_availability_check, stockVars
<1>5. CASE StaffSetsQuantity \/ ReservationsEnd
  BY <1>5 DEF StaffSetsQuantity, ReservationsEnd, ReservationExpires, stockVars,
     delete_expired_reservations_task, update_or_create_variant_stocks
<1>6. ASSUME NEW w \in Workers, create_order_from_checkout(w)
      PROVE  /\ request[w].op \in {"with_transaction", "post_payment"}
             /\ Exists(request[w].order) /\ place_order(w)
  <2>1. request[w].op = "with_transaction" /\ place_order(w)
    BY <1>6 DEF create_order_from_checkout
  <2>2. request[w].order \in CheckoutOrders
    BY <2>1 DEF CheckoutInv, RequestsOK, RequestOK, Idle
  <2>3. IsLocking(w, request[w].order)
    BY <2>1 DEF IsLocking, Locking
  <2> QED BY <2>1, <2>2, <2>3 DEF CheckoutInv, LocksAreHeldAlone
<1>7. ASSUME NEW w \in Workers, complete_checkout_post_payment_part(w)
      PROVE  /\ request[w].op \in {"with_transaction", "post_payment"}
             /\ Exists(request[w].order) /\ place_order(w)
  BY <1>7 DEF complete_checkout_post_payment_part
<1>8. \/ UNCHANGED vars
      \/ \E w \in Workers : add_variants_to_checkout(w)
      \/ \E l \in Lines : checkout_line_delete(l)
      \/ \E w \in Workers : reserve_during_payment(w)
      \/ StaffSetsQuantity \/ ReservationsEnd
      \/ \E w \in Workers : create_order_from_checkout(w)
      \/ \E w \in Workers : complete_checkout_post_payment_part(w)
  BY DEF Next, CompletionStep, validate_checkout_lines, create_lines_for_order,
     process_payment, return_placed_order, RequestFails, allVars
<1> HIDE DEF Same
<1>9. Same \/ \E w \in Workers : /\ request[w].op \in {"with_transaction", "post_payment"}
                                 /\ Exists(request[w].order) /\ place_order(w)
  BY <1>1, <1>2, <1>3, <1>4, <1>5, <1>6, <1>7, <1>8 DEF Same
<1> QED BY <1>9 DEF Same

(* The counters are right and the lines allocated once, always.             *)
LEMMA CheckoutBooks == Spec => [](CounterMatchesRows /\ AllocatedOnce)
<1>1. Init => CounterMatchesRows /\ AllocatedOnce
  <2> SUFFICES ASSUME Init PROVE CounterMatchesRows /\ AllocatedOnce
    OBVIOUS
  <2>1. \A k \in Rows : allocation[k] = NoRow
    BY DEF Init, WarehouseInit
  <2>2. AllocatedOnce
    BY <2>1, BoundAssumption DEF AllocatedOnce, NoRow
  <2>3. ASSUME NEW s \in Stocks PROVE quantity_allocated[s] = StockAllocated(allocation, s)
    <3>1. \A k \in RowsOfStock(s) : allocation[k] \in Int /\ allocation[k] <= 0
      BY <2>1, RowSets DEF NoRow
    <3>2. Total(allocation, RowsOfStock(s)) = 0
      BY <3>1, TotalZero
    <3> QED BY <3>2 DEF Init, WarehouseInit, StockAllocated
  <2> QED BY <2>2, <2>3 DEF CounterMatchesRows
<1>2. CheckoutInv /\ CounterMatchesRows /\ AllocatedOnce /\ [Next]_allVars
        => CounterMatchesRows' /\ AllocatedOnce'
  <2> SUFFICES ASSUME CheckoutInv, CounterMatchesRows, AllocatedOnce, [Next]_allVars
               PROVE  CounterMatchesRows' /\ AllocatedOnce'
    OBVIOUS
  <2>1. CASE UNCHANGED <<allocation, quantity_allocated>>
    BY <2>1 DEF CounterMatchesRows, StockAllocated, AllocatedOnce
  <2> QED BY <2>1, OnlyPlacingAllocates, PlaceOrderCounts
<1> QED BY <1>1, <1>2, CheckoutInvHolds, PTL DEF Spec

(* The counter of a stock is the sum of its rows after every transaction of *)
(* any number of workers: checkouts never deallocate, which is where other  *)
(* requests lose an update, so nothing is assumed of the lines here.        *)
THEOREM CheckoutsKeepTheCounter == Spec => []CounterMatchesRows
BY CheckoutBooks, PTL

(* Every transaction of a checkout is one that Warehouse allows any caller: *)
(* completions allocate, line updates and payments reserve, and neither     *)
(* does anything else to the tables.  The counter bound of Warehouse only   *)
(* has to leave room for all lines.                                         *)
THEOREM CheckoutsUseTheWarehouse ==
  ASSUME MaxCounter >= Cardinality(Lines) * MaxNeed
  PROVE  Spec => WarehouseSpec
<1>1. Init => WarehouseInit
  BY DEF Init
<1>2. /\ CheckoutInv /\ CheckoutInv' /\ (CounterMatchesRows /\ AllocatedOnce)'
      /\ [Next]_allVars
      => [WarehouseNext]_vars
  <2> SUFFICES ASSUME CheckoutInv, CheckoutInv', CounterMatchesRows', AllocatedOnce',
                      [Next]_allVars
               PROVE  [WarehouseNext]_vars
    OBVIOUS
  <2>1. ASSUME NEW L \in SUBSET Lines, L # {}, NEW o \in CheckoutOrders,
               \A l \in L : LineOrder[l] = o
        PROVE  L \in Requests /\ OrdersOf(L) \subseteq CheckoutOrders
    BY <2>1 DEF Requests, OrdersOf
  <2>2. ASSUME NEW w \in Workers, add_variants_to_checkout(w)
        PROVE  CheckoutStep \/ UNCHANGED vars
    <3> DEFINE r == request[w]
               L == {r.line}
               q == [m \in L |-> r.quantity]
               others == CheckoutLines(LineOrder[r.line]) \ L
    <3>1. r.op = "update" /\ Exists(LineOrder[r.line])
      BY <2>2 DEF add_variants_to_checkout
    <3>2. r.line \in Lines /\ r.quantity \in 1 .. MaxNeed
      <4>1. RequestOK(r)
        BY DEF CheckoutInv, RequestsOK
      <4> HIDE DEF r
      <4> QED BY <3>1, <4>1 DEF RequestOK, Idle, Completing, Locking
    <3>3. CASE ~ReservationsEnabled
      BY <2>2, <3>3 DEF add_variants_to_checkout
    <3>4. CASE ReservationsEnabled
      <4>1. reserve_stocks(L, q, others)
        BY <2>2, <3>4 DEF add_variants_to_checkout
      <4>2. L \in Requests /\ OrdersOf(L) \subseteq CheckoutOrders
        BY <2>1, <3>2, CheckoutLinesAssumption
      <4>3. HasNone(allocation, L)
        BY <3>1, <3>2 DEF CheckoutInv, LinesMove
      <4>5. q \in Quantities(L)
        BY <3>2 DEF Quantities
      <4>4. others \in SUBSET (SameOrder(L) \ L) /\ L \in SUBSET L
        BY DEF CheckoutLines, SameOrder
      <4> HIDE DEF L, q, others
      <4> QED BY <4>1, <4>2, <4>3, <4>4, <4>5 DEF CheckoutStep
    <3> QED BY <3>3, <3>4
  <2>3. ASSUME NEW l \in Lines, checkout_line_delete(l) PROVE CheckoutStep
    <3>1. {l} \in Requests /\ OrdersOf({l}) \subseteq CheckoutOrders
      BY <2>1, CheckoutLinesAssumption
    <3>2. wanted[l] > 0 /\ delete_checkout_lines({l}) /\ UNCHANGED <<stockVars, allocation, taskVars>>
      BY <2>3 DEF checkout_line_delete
    <3>3. HasNone(allocation, {l})
      BY <3>2 DEF CheckoutInv, LinesMove
    <3> QED BY <3>1, <3>2, <3>3 DEF CheckoutStep
  <2>4. ASSUME NEW w \in Workers, reserve_during_payment(w) PROVE CheckoutStep
    <3> DEFINE q == request[w].quantities
               L == DOMAIN q
    <3>1. /\ request[w].op = "pre_payment" /\ \A l \in L : wanted[l] > 0
          /\ reserve_without_availability_check(L, q)
      BY <2>4 DEF reserve_during_payment
    <3>2. /\ L \in SUBSET Lines /\ L # {} /\ request[w].order \in CheckoutOrders
          /\ q \in [L -> 1 .. MaxNeed] /\ \A l \in L : LineOrder[l] = request[w].order
      BY <3>1 DEF CheckoutInv, RequestsOK, RequestOK, Idle
    <3>3. \A l \in L : HasNone(allocation, {l})
      BY <3>1, <3>2 DEF CheckoutInv, LinesMove
    <3>4. HasNone(allocation, L)
      BY <3>3 DEF HasNone, RowsOfLines
    <3>5. L \in Requests /\ OrdersOf(L) \subseteq CheckoutOrders
      BY <2>1, <3>2
    <3>6. q \in Quantities(L)
      BY <3>2 DEF Quantities
    <3> HIDE DEF L, q
    <3> QED BY <3>1, <3>4, <3>5, <3>6 DEF CheckoutStep
  <2>5. ASSUME NEW w \in Workers, request[w].op \in {"with_transaction", "post_payment"},
               place_order(w)
        PROVE  OrderStep /\ CounterInBounds
    <3> DEFINE q == request[w].quantities
               L == DOMAIN q
    <3>1. create_order(L, q, TRUE, TRUE)
      BY <2>5 DEF place_order
    <3>2. /\ L \in SUBSET Lines /\ L # {} /\ request[w].order \in CheckoutOrders
          /\ q \in [L -> 1 .. MaxNeed] /\ \A l \in L : LineOrder[l] = request[w].order
      BY <2>5 DEF CheckoutInv, RequestsOK, RequestOK, Idle
    <3>3. L \in Requests /\ OrdersOf(L) \subseteq CheckoutOrders
      BY <2>1, <3>2
    <3>4. q \in Quantities(L)
      BY <3>2 DEF Quantities
    <3>5. OrderStep
      <4> HIDE DEF L, q
      <4> QED BY <3>1, <3>3, <3>4 DEF OrderStep
    <3>6. ASSUME NEW s \in Stocks PROVE quantity_allocated'[s] \in -MaxCounter .. MaxCounter
      <4>1. allocation' \in [Rows -> RowValue]
        BY DEF CheckoutInv, CheckoutTypeOK, TypeOK, RowValue
      <4>2. StockAllocated(allocation', s) \in 0 .. Cardinality(Lines) * MaxNeed
        BY <4>1, AllocatedBound, BoundAssumption DEF AllocatedOnce
      <4>3. quantity_allocated'[s] = StockAllocated(allocation', s)
        BY DEF CounterMatchesRows
      <4>4. Cardinality(Lines) * MaxNeed \in Nat
        BY LinesAssumption, FS_CardinalityType, BoundAssumption
      <4> HIDE DEF StockAllocated
      <4> QED BY <4>2, <4>3, <4>4, BoundAssumption
    <3> QED BY <3>5, <3>6 DEF CounterInBounds
  <2>6. CASE StaffSetsQuantity \/ ReservationsEnd
    BY <2>6 DEF StaffSetsQuantity, ReservationsEnd, WarehouseNext
  <2>7. \/ UNCHANGED vars
        \/ \E w \in Workers : add_variants_to_checkout(w)
        \/ \E l \in Lines : checkout_line_delete(l)
        \/ \E w \in Workers : reserve_during_payment(w)
        \/ StaffSetsQuantity \/ ReservationsEnd
        \/ \E w \in Workers : /\ request[w].op \in {"with_transaction", "post_payment"}
                              /\ place_order(w)
    BY DEF Next, CompletionStep, validate_checkout_lines, create_lines_for_order,
       process_payment, return_placed_order, RequestFails, allVars,
       create_order_from_checkout, complete_checkout_post_payment_part
  <2> QED BY <2>2, <2>3, <2>4, <2>5, <2>6, <2>7 DEF WarehouseNext
<1> QED BY <1>1, <1>2, CheckoutInvHolds, CheckoutBooks, PTL DEF Spec, WarehouseSpec

-----------------------------------------------------------------------------
(* Requests that follow one another, of a shop whose warehouses all ship to *)
(* every customer: what a completion has checked still holds when it        *)
(* allocates.  Its own reservations end with it; those of the others only   *)
(* expire, and nobody changes a quantity or allocates in between.           *)
OneWorker == \A v, w \in Workers : v = w
ShipsEverywhere == \A l \in Lines : LineWarehouses[l] = Warehouses

VariantStocks(v) == {s \in Stocks : s[1] = v}
OrderRows(o) == RowsOfLines({m \in Lines : LineOrder[m] = o})

(* The units of a variant that orders and other checkouts were promised.    *)
Promised(v, o) ==
  Total(allocation, VariantRows(v))
    + Total(reservation, VariantRows(v) \ (OrderRows(o) \cup expired))

Checked(r) == r.op \in Completing => \A l \in DOMAIN r.quantities :
  r.quantities[l] + Promised(LineVariant[l], r.order) <= Total(quantity, VariantStocks(LineVariant[l]))
RequestsChecked == \A w \in Workers : Checked(request[w])

(* Rows without units add nothing to a sum.                                 *)
LEMMA TotalOutside ==
  ASSUME NEW K, IsFiniteSet(K), NEW A \in SUBSET K, NEW f, \A k \in K : f[k] \in Int,
         \A k \in K \ A : f[k] <= 0
  PROVE  Total(f, K) = Total(f, A)
<1>1. IsFiniteSet(A) /\ IsFiniteSet(K \ A) /\ A \cup (K \ A) = K
  BY FS_Subset, FS_Difference
<1>2. Total(f, A \cup (K \ A)) = Total(f, A) + Total(f, K \ A)
  BY <1>1, TotalSplit
<1>3. Total(f, K \ A) = 0
  BY TotalZero
<1>4. Total(f, A) \in Nat
  BY <1>1, TotalType
<1> QED BY <1>1, <1>2, <1>3, <1>4

LEMMA PromisedType ==
  ASSUME TypeOK, NEW v, NEW o
  PROVE  /\ \A k \in Rows : allocation[k] \in Int /\ reservation[k] \in Int
         /\ VariantRows(v) \in SUBSET Rows /\ IsFiniteSet(VariantRows(v))
         /\ Total(allocation, VariantRows(v)) \in Nat
         /\ Total(reservation, VariantRows(v) \ (OrderRows(o) \cup expired)) \in Nat
<1>1. \A k \in Rows : allocation[k] \in Int /\ reservation[k] \in Int
  BY DEF TypeOK, NoRow
<1>2. VariantRows(v) \in SUBSET Rows
  BY DEF VariantRows
<1>3. VariantRows(v) \ (OrderRows(o) \cup expired) \in SUBSET Rows
  BY <1>2
<1> QED BY <1>1, <1>2, <1>3, RowsAreFinite, TableSums

(* The check: the stocks of a line are all the stocks of its variant.       *)
LEMMA CheckPasses ==
  ASSUME CheckoutInv, ShipsEverywhere, NEW o \in CheckoutOrders, NEW L, L = CheckoutLines(o),
         check_stock_quantity_bulk(L, wanted, L, TRUE), NEW l \in L
  PROVE  wanted[l] + Promised(LineVariant[l], o) <= Total(quantity, VariantStocks(LineVariant[l]))
<1>1. l \in Lines /\ LineOrder[l] = o /\ L \in SUBSET {m \in Lines : LineOrder[m] = o}
  BY DEF CheckoutLines
<1>2. PICK v, S, rows, own : /\ v = LineVariant[l] /\ S = LineStocks(l)
                             /\ rows = UNION {RowsOfStock(s) : s \in S}
                             /\ own = RowsOfLines(L)
  OBVIOUS
<1>3. TypeOK /\ wanted[l] \in Int
  BY <1>1, BoundAssumption DEF CheckoutInv, CheckoutTypeOK
<1>4. wanted[l] <= Total(quantity, S) - Total(allocation, rows) - Total(reservation, rows \ (own \cup expired))
  BY <1>2 DEF check_stock_quantity_bulk, Available
<1>5. S \in SUBSET Stocks /\ \A s \in Stocks : s \in S <=> s \in stockRows /\ s[1] = v
  <2>1. \A s \in Stocks : s[2] \in Warehouses
    BY DEF Stocks
  <2> QED BY <1>1, <1>2, <1>3, <2>1 DEF LineStocks, ShipsEverywhere, TypeOK
<1>6. \A k \in Rows : k \in rows <=> k[2] \in S
  BY <1>2, <1>5, RowSets
<1>7. rows \in SUBSET Rows
  BY <1>2, <1>5, RowSets
<1>8. rows \in SUBSET VariantRows(v)
  BY <1>5, <1>6, <1>7 DEF VariantRows
<1>9. \A k \in VariantRows(v) \ rows : allocation[k] <= 0 /\ reservation[k] <= 0
  <2> SUFFICES ASSUME NEW k \in VariantRows(v) \ rows PROVE allocation[k] <= 0 /\ reservation[k] <= 0
    OBVIOUS
  <2>1. k \in Rows /\ k[2][1] = v /\ k[2] \notin S /\ k[2] \in Stocks
    BY <1>6 DEF VariantRows, Rows
  <2>2. k[2] \notin stockRows
    BY <1>5, <2>1
  <2>3. allocation[k] = NoRow /\ reservation[k] = NoRow
    BY <1>3, <2>1, <2>2 DEF TypeOK
  <2> QED BY <2>3 DEF NoRow
<1>10. /\ \A k \in Rows : allocation[k] \in Int /\ reservation[k] \in Int
       /\ VariantRows(v) \in SUBSET Rows /\ IsFiniteSet(VariantRows(v))
       /\ Total(allocation, VariantRows(v)) \in Nat
       /\ Total(reservation, VariantRows(v) \ (OrderRows(o) \cup expired)) \in Nat
  BY <1>3, PromisedType
<1>11. Total(allocation, VariantRows(v)) = Total(allocation, rows)
  BY <1>8, <1>9, <1>10, TotalOutside
<1>12. Total(reservation, VariantRows(v) \ (OrderRows(o) \cup expired))
         <= Total(reservation, rows \ (own \cup expired))
  <2> DEFINE K == VariantRows(v) \ (OrderRows(o) \cup expired)
             A == K \cap rows
             B == rows \ (own \cup expired)
  <2>1. own \in SUBSET OrderRows(o)
    BY <1>1, <1>2 DEF OrderRows, RowsOfLines
  <2>2. A \in SUBSET K /\ A \in SUBSET B
    BY <2>1
  <2>3. IsFiniteSet(K) /\ IsFiniteSet(B)
    BY <1>7, <1>10, RowsAreFinite
  <2>4. (\A k \in K : reservation[k] \in Int) /\ (\A k \in B : reservation[k] \in Int)
        /\ \A k \in K \ A : reservation[k] <= 0
    BY <1>7, <1>9, <1>10
  <2> HIDE DEF K, A, B
  <2>5. Total(reservation, K) = Total(reservation, A)
    BY <2>2, <2>3, <2>4, TotalOutside
  <2>6. Total(reservation, A) <= Total(reservation, B)
    BY <2>2, <2>3, <2>4, TotalSubset
  <2>7. Total(reservation, K) <= Total(reservation, B)
    BY <2>5, <2>6
  <2> QED BY <2>7 DEF K, B
<1>13. Total(quantity, S) <= Total(quantity, VariantStocks(v))
  <2>1. S \in SUBSET VariantStocks(v) /\ VariantStocks(v) \in SUBSET Stocks
    BY <1>5 DEF VariantStocks
  <2>2. IsFiniteSet(VariantStocks(v)) /\ \A s \in VariantStocks(v) : quantity[s] \in Int
    BY <1>3, <2>1, RowsAreFinite, FS_Subset DEF TypeOK
  <2> QED BY <2>1, <2>2, TotalSubset
<1>14. PICK a, p, b, q, t : /\ a = Total(allocation, rows) /\ b = Total(reservation, rows \ (own \cup expired))
                            /\ p = Total(reservation, VariantRows(v) \ (OrderRows(o) \cup expired))
                            /\ q = Total(quantity, S) /\ t = Total(quantity, VariantStocks(v))
  OBVIOUS
<1>15. a \in Nat /\ b \in Nat /\ p \in Nat /\ q \in Nat /\ t \in Nat
  <2>1. a \in Nat /\ p \in Nat
    BY <1>10, <1>11, <1>14
  <2>2. b \in Nat
    BY <1>7, <1>10, <1>14, TableSums
  <2>3. IsFiniteSet(S) /\ IsFiniteSet(VariantStocks(v)) /\ VariantStocks(v) \in SUBSET Stocks
    BY <1>5, RowsAreFinite, FS_Subset DEF VariantStocks
  <2>4. (\A s \in S : quantity[s] \in Int) /\ \A s \in VariantStocks(v) : quantity[s] \in Int
    BY <1>3, <1>5, <2>3 DEF TypeOK
  <2> QED BY <1>14, <2>1, <2>2, <2>3, <2>4, TotalType
<1>16. wanted[l] + (a + p) <= t
  BY <1>3, <1>4, <1>12, <1>13, <1>14, <1>15
<1> QED BY <1>2, <1>11, <1>14, <1>16 DEF Promised

(* Reservations of others that end take nothing from what was checked.      *)
LEMMA PromisesEnd ==
  ASSUME TypeOK, TypeOK', NEW v, NEW o, allocation' = allocation,
         \A k \in Rows \ OrderRows(o) : \/ reservation'[k] <= 0 \/ k \in expired'
                                        \/ k \notin expired /\ reservation'[k] = reservation[k]
  PROVE  Promised(v, o)' <= Promised(v, o)
<1> DEFINE K == VariantRows(v) \ (OrderRows(o) \cup expired')
           B == VariantRows(v) \ (OrderRows(o) \cup expired)
           A == K \cap B
<1>1. PICK after : after = reservation'
  OBVIOUS
<1>2. K \in SUBSET Rows /\ B \in SUBSET Rows /\ A \in SUBSET K /\ A \in SUBSET B
  BY DEF VariantRows
<1>3. IsFiniteSet(K) /\ IsFiniteSet(B) /\ IsFiniteSet(A)
  BY <1>2, RowsAreFinite
<1>4. \A k \in Rows : after[k] \in Int /\ reservation[k] \in Int
  BY <1>1 DEF TypeOK, NoRow
<1>5. \A k \in K : k \in Rows \ OrderRows(o) /\ k \notin expired'
  BY <1>2
<1>6. \A k \in K \ A : after[k] <= 0
  BY <1>1, <1>5
<1>7. \A k \in A : after[k] <= 0 \/ after[k] = reservation[k]
  BY <1>1, <1>5
<1>p. Promised(v, o)' = Total(allocation, VariantRows(v)) + Total(after, K)
      /\ Promised(v, o) = Total(allocation, VariantRows(v)) + Total(reservation, B)
  BY <1>1 DEF Promised
<1> HIDE DEF K, B, A
<1>8. Total(after, K) = Total(after, A)
  BY <1>2, <1>3, <1>4, <1>6, TotalOutside
<1>9. Total(after, A) <= Total(reservation, A)
  <2>1. \A k \in A : after[k] \in Int /\ reservation[k] \in Int /\ (after[k] <= reservation[k] \/ after[k] <= 0)
    BY <1>2, <1>4, <1>7
  <2> QED BY <1>3, <2>1, TotalLess
<1>10. Total(reservation, A) <= Total(reservation, B)
  BY <1>2, <1>3, <1>4, TotalSubset
<1>11. /\ Total(after, A) \in Nat /\ Total(reservation, A) \in Nat /\ Total(reservation, B) \in Nat
       /\ Total(allocation, VariantRows(v)) \in Nat
  BY <1>2, <1>4, TableSums, PromisedType
<1>12. Total(after, K) <= Total(reservation, B)
  BY <1>8, <1>9, <1>10, <1>11
<1>13. Total(after, K) \in Nat
  BY <1>8, <1>11
<1> QED BY <1>p, <1>11, <1>12, <1>13

(* What the placing step does to the rows of a variant.                     *)
LEMMA PlacingAllocates ==
  ASSUME CheckoutInv, DistinctVariants, NEW w \in Workers,
         request[w].op \in {"with_transaction", "post_payment"}, place_order(w),
         NEW l \in DOMAIN request[w].quantities, NEW v, v = LineVariant[l]
  PROVE  /\ Total(allocation', VariantRows(v))
              = Total(allocation, VariantRows(v)) + request[w].quantities[l]
         /\ Total(reservation', VariantRows(v) \ expired')
              = Total(reservation, VariantRows(v) \ (OrderRows(request[w].order) \cup expired))
         /\ quantity' = quantity
<1>1. PICK r, L, need, o : r = request[w] /\ L = DOMAIN r.quantities /\ need = r.quantities /\ o = r.order
  OBVIOUS
<1>2. /\ create_order(L, need, TRUE, TRUE)
      /\ L \in SUBSET Lines /\ L # {} /\ l \in L /\ need \in [L -> 1 .. MaxNeed]
      /\ \A m \in L : LineOrder[m] = o
  <2>1. RequestOK(r) /\ r.op \in {"with_transaction", "post_payment"}
    BY <1>1 DEF CheckoutInv, RequestsOK
  <2>2. create_order(L, need, TRUE, TRUE)
    BY <1>1 DEF place_order
  <2>3. /\ L \in SUBSET Lines /\ L # {} /\ need \in [L -> 1 .. MaxNeed]
        /\ \A m \in L : LineOrder[m] = o
    BY <1>1, <2>1 DEF RequestOK, Idle
  <2> QED BY <1>1, <2>2, <2>3
<1>3. PICK take : take = create_allocations(allocation, L, need, TRUE)
  OBVIOUS
<1>4. /\ Satisfied(L, need, take) /\ allocation' = Created(allocation, take) /\ quantity' = quantity
      /\ reservation' = [k \in Rows |-> IF k[1] \in SameOrder(L) THEN NoRow ELSE reservation[k]]
      /\ expired' = expired \ RowsOfLines(SameOrder(L))
  BY <1>2, <1>3 DEF create_order, allocate_stocks, delete_checkout_lines
<1>5. TypeOK /\ allocation \in [Rows -> RowValue] /\ \A m \in L : need[m] \in Int
  BY <1>2, BoundAssumption DEF CheckoutInv, CheckoutTypeOK, TypeOK, RowValue
<1>6. /\ take \in [Rows -> Nat]
      /\ \A k \in Rows : take[k] > 0 => /\ k[1] \in L /\ allocation[k] = NoRow
                                        /\ k[2][1] = LineVariant[k[1]]
  BY <1>2, <1>3, <1>5, AllocationRows
<1>7. /\ \A k \in Rows : allocation[k] \in Int /\ reservation[k] \in Int
      /\ VariantRows(v) \in SUBSET Rows /\ IsFiniteSet(VariantRows(v))
  BY <1>5, PromisedType
<1>8. Total(allocation', VariantRows(v)) = Total(allocation, VariantRows(v)) + Total(take, VariantRows(v))
  <2>1. PICK K, made : K = VariantRows(v) /\ made = allocation'
    OBVIOUS
  <2>2. \A k \in Rows : /\ take[k] \in Int /\ (take[k] > 0 => allocation[k] <= 0)
                        /\ made[k] = IF take[k] > 0 THEN take[k] ELSE allocation[k]
    BY <1>4, <1>6, <2>1 DEF Created, NoRow
  <2>3. \A k \in K : /\ allocation[k] \in Int /\ take[k] \in Int
                     /\ take[k] > 0 => allocation[k] <= 0
                     /\ made[k] = IF take[k] > 0 THEN take[k] ELSE allocation[k]
    BY <1>7, <2>1, <2>2
  <2>4. Total(made, K) = Total(allocation, K) + Total(take, K)
    BY <1>7, <2>1, <2>3, TotalCreated
  <2> QED BY <2>1, <2>4
<1>9. Total(take, VariantRows(v)) = need[l]
  <2>1. PICK K, A : /\ K = RowsOfLines({l}) /\ A = {k \in K : k[2][1] = v}
    OBVIOUS
  <2>2. /\ K \in SUBSET Rows /\ IsFiniteSet(K) /\ A \in SUBSET K /\ A \in SUBSET VariantRows(v)
        /\ \A k \in Rows : k \in K <=> k[1] = l
    <3>1. K = {k \in Rows : k[1] \in {l}}
      BY <1>2, <2>1, RowSets
    <3> QED BY <2>1, <3>1, RowsAreFinite DEF VariantRows
  <2>3. \A k \in Rows : take[k] \in Int /\ take[k] \in Nat
    BY <1>6
  <2>4. \A k \in K \ A : take[k] <= 0
    <3> SUFFICES ASSUME NEW k \in K \ A PROVE take[k] <= 0
      OBVIOUS
    <3>1. k \in Rows /\ k[1] = l /\ k[2][1] # v
      BY <2>1, <2>2
    <3> QED BY <1>6, <2>3, <3>1
  <2>5. \A k \in VariantRows(v) \ A : take[k] <= 0
    <3> SUFFICES ASSUME NEW k \in VariantRows(v) \ A PROVE take[k] <= 0
      OBVIOUS
    <3>1. k \in Rows /\ k[2][1] = v /\ k \notin K
      BY <2>1 DEF VariantRows
    <3>2. k[1] # l
      BY <2>2, <3>1
    <3>3. ~(take[k] > 0)
      <4> SUFFICES ASSUME take[k] > 0 PROVE FALSE
        OBVIOUS
      <4>1. k[1] \in L /\ LineVariant[k[1]] = v
        BY <1>6, <3>1
      <4>2. k[1] \in Lines /\ l \in Lines /\ LineOrder[k[1]] = LineOrder[l]
        BY <1>2, <4>1
      <4> QED BY <3>2, <4>1, <4>2 DEF DistinctVariants
    <3> QED BY <2>3, <3>1, <3>3
  <2>6. Total(take, K) = Total(take, A)
    BY <2>2, <2>3, <2>4, TotalOutside
  <2>7. Total(take, VariantRows(v)) = Total(take, A)
    BY <1>7, <2>2, <2>3, <2>5, TotalOutside
  <2>8. Total(take, K) = need[l]
    BY <1>2, <1>4, <2>1 DEF Satisfied
  <2> QED BY <2>6, <2>7, <2>8
<1>10. SameOrder(L) = {m \in Lines : LineOrder[m] = o}
  BY <1>2 DEF SameOrder
<1>11. Total(reservation', VariantRows(v) \ expired')
         = Total(reservation, VariantRows(v) \ (OrderRows(o) \cup expired))
  <2>1. PICK after, K, A : /\ after = reservation' /\ K = VariantRows(v) \ expired'
                           /\ A = VariantRows(v) \ (OrderRows(o) \cup expired)
    OBVIOUS
  <2>2. \A k \in Rows : k \in OrderRows(o) <=> k[1] \in SameOrder(L)
    <3>1. SameOrder(L) \in SUBSET Lines
      BY DEF SameOrder
    <3>2. RowsOfLines(SameOrder(L)) = {k \in Rows : k[1] \in SameOrder(L)}
      BY <3>1, RowSets
    <3> QED BY <1>10, <3>2 DEF OrderRows
  <2>3. expired' = expired \ OrderRows(o)
    BY <1>4, <1>10 DEF OrderRows
  <2>4. \A k \in Rows : after[k] = IF k \in OrderRows(o) THEN NoRow ELSE reservation[k]
    BY <1>4, <2>1, <2>2
  <2>5. K \in SUBSET Rows /\ IsFiniteSet(K) /\ A \in SUBSET K
    BY <1>7, <2>1, <2>3, RowsAreFinite
  <2>6. \A k \in Rows : after[k] \in Int
    BY <1>7, <2>4 DEF NoRow
  <2>7. \A k \in K \ A : after[k] <= 0
    <3> SUFFICES ASSUME NEW k \in K \ A PROVE after[k] <= 0
      OBVIOUS
    <3>1. k \in Rows /\ k \in OrderRows(o)
      BY <1>7, <2>1, <2>3
    <3> QED BY <2>4, <3>1 DEF NoRow
  <2>8. Total(after, K) = Total(after, A)
    BY <2>5, <2>6, <2>7, TotalOutside
  <2>9. \A k \in A : after[k] = reservation[k]
    BY <1>7, <2>1, <2>4
  <2>10. Total(after, A) = Total(reservation, A)
    BY <2>9, TotalSame
  <2> QED BY <2>1, <2>8, <2>10
<1> QED BY <1>1, <1>4, <1>8, <1>9, <1>11

LEMMA CheckedHolds ==
  ASSUME OneWorker, ShipsEverywhere
  PROVE  Spec => []RequestsChecked
<1>1. Init => RequestsChecked
  BY DEF Init, RequestsChecked, Checked, Idle, Completing, Locking
<1>2. CheckoutInv /\ CheckoutInv' /\ RequestsChecked /\ [Next]_allVars => RequestsChecked'
  <2> SUFFICES ASSUME CheckoutInv, CheckoutInv', RequestsChecked, [Next]_allVars PROVE RequestsChecked'
    OBVIOUS
  <2>t. /\ TypeOK /\ TypeOK' /\ request \in [Workers -> {request[v] : v \in Workers}]
        /\ \A w \in Workers : RequestOK(request[w])
    BY DEF CheckoutInv, CheckoutTypeOK, RequestsOK
  <2>1. ASSUME NEW w \in Workers, NEW r, Proceed(w, r), Checked(r)' PROVE RequestsChecked'
    <3>1. \A v \in Workers : request'[v] = r
      BY <2>1, <2>t DEF OneWorker, Proceed
    <3> QED BY <2>1, <3>1 DEF RequestsChecked, Checked
  <2>2. ASSUME NEW w \in Workers, NEW r, Proceed(w, r), r.op \notin Completing PROVE RequestsChecked'
    BY <2>1, <2>2 DEF Checked
  <2>3. ASSUME NEW w \in Workers, request[w] = Idle, UNCHANGED request PROVE RequestsChecked'
    <3>1. \A v \in Workers : request'[v] = Idle
      BY <2>3 DEF OneWorker
    <3> QED BY <3>1 DEF RequestsChecked, Checked, Idle, Completing, Locking
  <2>4. ASSUME NEW w \in Workers, NEW r, Proceed(w, r), allocation' = allocation, quantity' = quantity,
               r.quantities = request[w].quantities, r.order = request[w].order,
               request[w].op \in Completing,
               \A k \in Rows \ OrderRows(r.order) :
                 \/ reservation'[k] <= 0 \/ k \in expired'
                 \/ k \notin expired /\ reservation'[k] = reservation[k]
        PROVE  RequestsChecked'
    <3> SUFFICES Checked(r)'
      BY <2>1, <2>4
    <3> SUFFICES ASSUME NEW l \in DOMAIN r.quantities
                 PROVE  r.quantities[l] + Promised(LineVariant[l], r.order)'
                          <= Total(quantity', VariantStocks(LineVariant[l]))
      BY DEF Checked
    <3>1. r.quantities[l] + Promised(LineVariant[l], r.order) <= Total(quantity, VariantStocks(LineVariant[l]))
      BY <2>4 DEF RequestsChecked, Checked
    <3>2. Promised(LineVariant[l], r.order)' <= Promised(LineVariant[l], r.order)
      BY <2>4, <2>t, PromisesEnd
    <3>3. PICK p, p2, t, n : /\ p = Promised(LineVariant[l], r.order) /\ p2 = Promised(LineVariant[l], r.order)'
                             /\ t = Total(quantity, VariantStocks(LineVariant[l])) /\ n = r.quantities[l]
      OBVIOUS
    <3>4. n \in Nat
      BY <2>4, <2>t, <3>3, BoundAssumption DEF RequestOK, Idle, Completing, Locking
    <3>5. p \in Nat
      BY <2>t, <3>3, PromisedType DEF Promised
    <3>6. t \in Nat
      <4>1. VariantStocks(LineVariant[l]) \in SUBSET Stocks
        BY DEF VariantStocks
      <4>2. IsFiniteSet(VariantStocks(LineVariant[l])) /\ \A s \in VariantStocks(LineVariant[l]) : quantity[s] \in Int
        BY <2>t, <4>1, RowsAreFinite, FS_Subset DEF TypeOK
      <4> QED BY <3>3, <4>2, TotalType
    <3>7. p2 \in Nat
      <4>1. VariantRows(LineVariant[l]) \in SUBSET Rows
        BY DEF VariantRows
      <4>2. VariantRows(LineVariant[l]) \ (OrderRows(r.order) \cup expired') \in SUBSET Rows
        BY <4>1
      <4>3. \A k \in Rows : allocation'[k] \in Int /\ reservation'[k] \in Int
        BY <2>t DEF TypeOK, NoRow
      <4>4. /\ Total(allocation', VariantRows(LineVariant[l])) \in Nat
            /\ Total(reservation', VariantRows(LineVariant[l]) \ (OrderRows(r.order) \cup expired')) \in Nat
        BY <4>1, <4>2, <4>3, TableSums
      <4> QED BY <3>3, <4>4 DEF Promised
    <3>8. n + p2 <= t
      BY <3>1, <3>2, <3>3, <3>4, <3>5, <3>6, <3>7
    <3> QED BY <2>4, <3>3, <3>8
  <2>5. ASSUME NEW w \in Workers, NEW l \in Lines, NEW q \in 1 .. MaxNeed, validate_checkout_lines(w, l, q)
        PROVE  RequestsChecked'
    <3>1. PICK r : r = [op |-> "update", line |-> l, quantity |-> q]
      OBVIOUS
    <3> QED BY <2>2, <2>5, <3>1 DEF validate_checkout_lines, Completing, Locking
  <2>6. ASSUME NEW w \in Workers, Finish(w) PROVE RequestsChecked'
    BY <2>2, <2>6 DEF Finish, Idle, Completing, Locking
  <2>7. ASSUME NEW w \in Workers,
               add_variants_to_checkout(w) \/ RequestFails(w) \/ return_placed_order(w)
                 \/ create_order_from_checkout(w) \/ complete_checkout_post_payment_part(w)
        PROVE  RequestsChecked'
    BY <2>6, <2>7 DEF add_variants_to_checkout, RequestFails, return_placed_order,
       create_order_from_checkout, complete_checkout_post_payment_part, place_order
  <2>8. CASE StaffSetsQuantity \/ \E l \in Lines : checkout_line_delete(l)
    BY <2>3, <2>8 DEF StaffSetsQuantity, checkout_line_delete, checkoutVars
  <2>9. ASSUME NEW w \in Workers, NEW o \in CheckoutOrders, NEW op, create_lines_for_order(w, o, op)
        PROVE  RequestsChecked'
    <3>1. PICK L, r : L = CheckoutLines(o) /\ r = [op |-> op, order |-> o, quantities |-> [l \in L |-> wanted[l]]]
      OBVIOUS
    <3>2. /\ check_stock_quantity_bulk(L, wanted, L, TRUE) /\ Proceed(w, r) /\ UNCHANGED vars
      BY <2>9, <3>1 DEF create_lines_for_order
    <3>3. \A l \in L : wanted[l] + Promised(LineVariant[l], o) <= Total(quantity, VariantStocks(LineVariant[l]))
      BY <3>1, <3>2, CheckPasses
    <3>4. \A l \in L : wanted[l] + Promised(LineVariant[l], o)' <= Total(quantity', VariantStocks(LineVariant[l]))
      BY <3>2, <3>3 DEF Promised, vars, stockVars
    <3>5. r.order = o /\ DOMAIN r.quantities = L /\ \A l \in L : r.quantities[l] = wanted[l]
      BY <3>1
    <3>6. Checked(r)'
      BY <3>4, <3>5 DEF Checked
    <3> QED BY <2>1, <3>2, <3>6
  <2>10. ASSUME NEW w \in Workers, reserve_during_payment(w) PROVE RequestsChecked'
    <3>1. PICK r, next, L : /\ r = request[w] /\ next = [r EXCEPT !.op = "process_payment"]
                            /\ L = DOMAIN r.quantities
      OBVIOUS
    <3>2. /\ r.op = "pre_payment" /\ Proceed(w, next)
          /\ reserve_without_availability_check(L, r.quantities)
      BY <2>10, <3>1 DEF reserve_during_payment
    <3>3. r.op \in Completing /\ L \in SUBSET {m \in Lines : LineOrder[m] = r.order}
      BY <2>t, <3>1, <3>2 DEF RequestOK, Idle, Completing, Locking
    <3>4. next.quantities = r.quantities /\ next.order = r.order
      BY <3>1
    <3>5. \A k \in Rows \ OrderRows(r.order) : reservation'[k] = reservation[k]
      <4> SUFFICES ASSUME NEW k \in Rows \ OrderRows(r.order) PROVE reservation'[k] = reservation[k]
        OBVIOUS
      <4>1. k \notin RowsOfLines(L)
        BY <3>3 DEF OrderRows, RowsOfLines
      <4> QED BY <3>2, <4>1 DEF reserve_without_availability_check
    <3>6. allocation' = allocation /\ quantity' = quantity /\ expired' = expired
      BY <3>2 DEF reserve_without_availability_check, stockVars
    <3>7. \A k \in Rows \ OrderRows(next.order) :
            \/ reservation'[k] <= 0 \/ k \in expired'
            \/ k \notin expired /\ reservation'[k] = reservation[k]
      BY <3>4, <3>5, <3>6
    <3> QED BY <2>4, <3>1, <3>2, <3>3, <3>4, <3>6, <3>7
  <2>11. ASSUME NEW w \in Workers, process_payment(w) PROVE RequestsChecked'
    <3>1. PICK r, next : r = request[w] /\ next = [r EXCEPT !.op = "post_payment"]
      OBVIOUS
    <3>2. r.op \in Completing /\ Proceed(w, next) /\ UNCHANGED vars
      BY <2>11, <3>1 DEF process_payment, Completing
    <3>3. next.quantities = r.quantities /\ next.order = r.order
      BY <3>1
    <3>4. allocation' = allocation /\ quantity' = quantity /\ expired' = expired /\ reservation' = reservation
      BY <3>2 DEF vars, stockVars
    <3> QED BY <2>4, <3>1, <3>2, <3>3, <3>4
  <2>12. CASE ReservationsEnd
    <3>1. /\ UNCHANGED <<request, allocation, quantity>>
          /\ \A k \in Rows : \/ reservation'[k] <= 0 \/ k \in expired'
                             \/ k \notin expired /\ reservation'[k] = reservation[k]
      BY <2>12 DEF ReservationsEnd, ReservationExpires, delete_expired_reservations_task,
         checkoutVars, stockVars, NoRow
    <3> SUFFICES ASSUME NEW w \in Workers PROVE Checked(request[w])'
      BY DEF RequestsChecked
    <3>2. CASE request[w].op \in Completing
      <4>1. PICK r : r = request[w]
        OBVIOUS
      <4>2. Proceed(w, r)
        BY <2>t, <3>1, <4>1 DEF Proceed
      <4>3. RequestsChecked'
        BY <2>4, <3>1, <3>2, <4>1, <4>2
      <4> QED BY <4>3 DEF RequestsChecked
    <3>3. CASE request[w].op \notin Completing
      BY <3>1, <3>3 DEF Checked
    <3> QED BY <3>2, <3>3
  <2>13. CASE UNCHANGED allVars
    BY <2>13 DEF RequestsChecked, Checked, Promised, allVars, vars, stockVars, checkoutVars
  <2> QED BY <2>5, <2>7, <2>8, <2>9, <2>10, <2>11, <2>12, <2>13 DEF Next, CompletionStep
<1> QED BY <1>1, <1>2, CheckoutInvHolds, PTL DEF Spec

(* Where requests follow one another and every warehouse ships to every     *)
(* customer, an order is placed only for units that nobody else was         *)
(* promised, by an order or by a reservation, although the gateway is       *)
(* called between the check and the allocation.                             *)
THEOREM PromisesAreKept ==
  ASSUME OneWorker, ShipsEverywhere, DistinctVariants
  PROVE  Spec => OrdersLeaveWhatIsPromised
<1> DEFINE Kept == \A w \in Workers : Placing(w) => \A l \in DOMAIN request[w].quantities :
       LET v == LineVariant[l]
       IN Total(allocation', VariantRows(v)) + Total(reservation', VariantRows(v) \ expired')
            <= Total(quantity', {s \in Stocks : s[1] = v})
<1>1. CheckoutInv /\ RequestsChecked => Kept
  <2> SUFFICES ASSUME CheckoutInv, RequestsChecked, NEW w \in Workers, Placing(w),
                      NEW l \in DOMAIN request[w].quantities, NEW v, v = LineVariant[l]
               PROVE  Total(allocation', VariantRows(v)) + Total(reservation', VariantRows(v) \ expired')
                        <= Total(quantity', {s \in Stocks : s[1] = v})
    OBVIOUS
  <2>1. request[w].op \in {"with_transaction", "post_payment"} /\ place_order(w)
    BY DEF Placing, create_order_from_checkout, complete_checkout_post_payment_part
  <2>2. PICK n, a, p, t : /\ n = request[w].quantities[l] /\ a = Total(allocation, VariantRows(v))
                          /\ p = Total(reservation, VariantRows(v) \ (OrderRows(request[w].order) \cup expired))
                          /\ t = Total(quantity, VariantStocks(v))
    OBVIOUS
  <2>3. n + (a + p) <= t
    BY <2>1, <2>2 DEF RequestsChecked, Checked, Promised, Completing, Locking
  <2>4. a \in Nat /\ p \in Nat
    BY <2>2, PromisedType DEF CheckoutInv, CheckoutTypeOK
  <2>5. n \in Nat
    BY <2>1, <2>2, BoundAssumption DEF CheckoutInv, RequestsOK, RequestOK, Idle
  <2>6. /\ Total(allocation', VariantRows(v)) = a + n
        /\ Total(reservation', VariantRows(v) \ expired') = p
        /\ quantity' = quantity
    BY <2>1, <2>2, PlacingAllocates
  <2>7. t \in Nat
    <3>1. VariantStocks(v) \in SUBSET Stocks
      BY DEF VariantStocks
    <3>2. IsFiniteSet(VariantStocks(v)) /\ \A s \in VariantStocks(v) : quantity[s] \in Int
      BY <3>1, RowsAreFinite, FS_Subset DEF CheckoutInv, CheckoutTypeOK, TypeOK
    <3> QED BY <2>2, <3>2, TotalType
  <2>8. (a + n) + p <= t
    BY <2>3, <2>4, <2>5, <2>7
  <2> QED BY <2>2, <2>6, <2>8 DEF VariantStocks
<1> QED BY <1>1, CheckoutInvHolds, CheckedHolds, PTL DEF OrdersLeaveWhatIsPromised
=============================================================================
