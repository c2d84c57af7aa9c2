--------------------------- MODULE WarehouseProofs ---------------------------
(***************************************************************************)
(* Theorems about Warehouse for every number of lines, stocks and units.   *)
(*                                                                         *)
(* TypeOK is inductive as it stands.  CounterMatchesRows rests on it: a    *)
(* line holds units only in stocks of its own variant, so when no order    *)
(* has two lines of one variant, the rows that one call of deallocate_stock *)
(* takes from are on different stocks.                                     *)
(***************************************************************************)
EXTENDS Warehouse, RowSumsProofs, TLAPS

RowValue == Nat \cup {NoRow}

(* There are finitely many rows, and so are those of a line or a stock.     *)
LEMMA RowsAreFinite ==
  /\ IsFiniteSet(Stocks)
  /\ \A K \in SUBSET Rows : IsFiniteSet(K)
<1>1. IsFiniteSet(Stocks)
  BY VariantsAssumption, WarehousesAssumption, FS_Product DEF Stocks
<1>2. IsFiniteSet(Copies)
  BY CopiesAssumption, FS_Interval DEF Copies
<1>3. IsFiniteSet(Lines \X (Stocks \X Copies))
  BY <1>1, <1>2, LinesAssumption, FS_Product
<1> DEFINE flat == [p \in Lines \X (Stocks \X Copies) |-> <<p[1], p[2][1], p[2][2]>>]
<1>4. flat \in Surjection(Lines \X (Stocks \X Copies), Rows)
  <2>1. flat \in [Lines \X (Stocks \X Copies) -> Rows]
    BY DEF Rows
  <2>2. ASSUME NEW k \in Rows PROVE \E p \in Lines \X (Stocks \X Copies) : flat[p] = k
    <3>1. PICK l \in Lines, s \in Stocks, c \in Copies : k = <<l, s, c>>
      BY DEF Rows
    <3>2. flat[<<l, <<s, c>>>>] = k
      BY <3>1
    <3> QED BY <3>2
  <2> QED BY <2>1, <2>2 DEF Surjection
<1>5. IsFiniteSet(Rows)
  BY <1>3, <1>4, FS_Surjection
<1> QED BY <1>1, <1>5, FS_Subset

(* What the sets of rows are.                                               *)
LEMMA RowSets ==
  /\ \A s \in Stocks : RowsOfStock(s) = {k \in Rows : k[2] = s}
  /\ \A L \in SUBSET Lines : RowsOfLines(L) = {k \in Rows : k[1] \in L}
<1>1. ASSUME NEW s \in Stocks PROVE RowsOfStock(s) = {k \in Rows : k[2] = s}
  BY DEF RowsOfStock, Rows
<1>2. ASSUME NEW L \in SUBSET Lines PROVE RowsOfLines(L) = {k \in Rows : k[1] \in L}
  BY DEF RowsOfLines, Rows
<1> QED BY <1>1, <1>2

(* The sums over a table of rows are numbers.                               *)
LEMMA TableSums ==
  ASSUME NEW f, \A k \in Rows : f[k] \in Int, NEW K \in SUBSET Rows
  PROVE  Total(f, K) \in Nat
BY RowsAreFinite, TotalType

(* Fill takes from each stock at most what it has, and never less than 0.   *)
LEMMA FillBounds ==
  ASSUME NEW D, IsFiniteSet(D), NEW avail, DOMAIN avail = D, \A s \in D : avail[s] \in Int,
         NEW need \in Int, NEW earlier \in [D -> SUBSET D], NEW s \in D
  PROVE  /\ Fill(need, avail, earlier)[s] \in Nat
         /\ Fill(need, avail, earlier)[s] > 0 =>
              Fill(need, avail, earlier)[s] <= avail[s]
<1> DEFINE rest == need - Total(avail, earlier[s])
<1>1. IsFiniteSet(earlier[s])
  BY FS_Subset
<1>2. rest \in Int
  BY <1>1, TotalType
<1>3. Fill(need, avail, earlier)[s] = IF rest <= 0 \/ avail[s] <= 0 THEN 0
                                      ELSE IF rest < avail[s] THEN rest ELSE avail[s]
  BY DEF Fill
<1> HIDE DEF rest
<1> QED BY <1>2, <1>3

(* The new rows that TakeInOrder computes.                                  *)
LEMMA TakeInOrderRows ==
  ASSUME stockRows \subseteq Stocks, quantity \in [Stocks -> Int],
         NEW rows, NEW L, NEW need, \A l \in L : need[l] \in Int,
         NEW held \in [Stocks -> Int], NEW reserved \in [Stocks -> Int], NEW pointOf
  PROVE  /\ TakeInOrder(rows, L, need, held, reserved, pointOf) \in [Rows -> Nat]
         /\ \A k \in Rows : TakeInOrder(rows, L, need, held, reserved, pointOf)[k] > 0 =>
              /\ k[1] \in L /\ rows[k] = NoRow /\ IsNextRow(rows, k)
              /\ k[2] \in stockRows /\ k[2][1] = LineVariant[k[1]]
              /\ TakeInOrder(rows, L, need, held, reserved, pointOf)[k]
                   <= quantity[k[2]] - held[k[2]] - reserved[k[2]]
<1> DEFINE take == TakeInOrder(rows, L, need, held, reserved, pointOf)
<1>1. ASSUME NEW k \in Rows
      PROVE  /\ take[k] \in Nat
             /\ take[k] > 0 => /\ k[1] \in L /\ k[2] \in LineStocks(k[1]) /\ IsNextRow(rows, k)
                               /\ take[k] <= quantity[k[2]] - held[k[2]] - reserved[k[2]]
  <2> DEFINE S == LineStocks(k[1])
             avail == [s \in S |-> quantity[s] - held[s] - reserved[s]]
             earlier == [s \in S |-> {t \in S : sort_stocks(held, pointOf[k[1]], t, s)}]
  <2>1. CASE k[1] \in L /\ k[2] \in S /\ IsNextRow(rows, k)
    <3>1. take[k] = Fill(need[k[1]], avail, earlier)[k[2]]
      BY <2>1 DEF TakeInOrder
    <3>2. S \subseteq Stocks /\ IsFiniteSet(S)
      BY RowsAreFinite, FS_Subset DEF LineStocks
    <3>3. \A s \in S : avail[s] \in Int
      BY <3>2
    <3>4. DOMAIN avail = S /\ earlier \in [S -> SUBSET S]
      OBVIOUS
    <3>5. avail[k[2]] = quantity[k[2]] - held[k[2]] - reserved[k[2]]
      BY <2>1
    <3> HIDE DEF S, avail, earlier
    <3>6. /\ Fill(need[k[1]], avail, earlier)[k[2]] \in Nat
          /\ Fill(need[k[1]], avail, earlier)[k[2]] > 0 =>
               Fill(need[k[1]], avail, earlier)[k[2]] <= avail[k[2]]
      BY <2>1, <3>2, <3>3, <3>4, FillBounds
    <3> QED BY <2>1, <3>1, <3>5, <3>6 DEF S
  <2>2. CASE ~(k[1] \in L /\ k[2] \in S /\ IsNextRow(rows, k))
    BY <2>2 DEF TakeInOrder
  <2> QED BY <2>1, <2>2
<1>2. take = [k \in Rows |-> take[k]]
  BY DEF TakeInOrder
<1> HIDE DEF take
<1>3. take \in [Rows -> Nat]
  BY <1>1, <1>2
<1> QED BY <1>1, <1>3 DEF take, LineStocks, IsNextRow

(* deallocate_stock takes from a row at most what the row holds.            *)
LEMMA DeallocatedRows ==
  ASSUME allocation \in [Rows -> RowValue],
         NEW L \in SUBSET Lines, NEW quantities, \A l \in L : quantities[l] \in Int
  PROVE  /\ Deallocated(L, quantities) \in [Rows -> Nat]
         /\ \A k \in Rows : Deallocated(L, quantities)[k] > 0 =>
              k[1] \in L /\ Deallocated(L, quantities)[k] <= allocation[k]
<1> DEFINE take == Deallocated(L, quantities)
<1>1. ASSUME NEW k \in Rows
      PROVE  /\ take[k] \in Nat
             /\ take[k] > 0 => k[1] \in L /\ take[k] <= allocation[k]
  <2> DEFINE earlier(j) == {i \in RowsOfLines({k[1]}) :
                              /\ i[2][1] = j[2][1]
                              /\ \/ i[2][2] < j[2][2]
                                 \/ i[2][2] = j[2][2] /\ i[3] < j[3]}
             before == [j \in Rows |-> earlier(j)]
  <2>1. CASE k[1] \in L
    <3>1. take[k] = Fill(quantities[k[1]], allocation, before)[k]
      BY <2>1 DEF Deallocated
    <3>2. RowsOfLines({k[1]}) \subseteq Rows
      BY RowSets DEF Rows
    <3>3. before \in [Rows -> SUBSET Rows]
      BY <3>2
    <3>4. IsFiniteSet(Rows) /\ DOMAIN allocation = Rows /\ \A j \in Rows : allocation[j] \in Int
      BY RowsAreFinite DEF RowValue, NoRow
    <3> HIDE DEF before
    <3> QED BY <2>1, <3>1, <3>3, <3>4, FillBounds
  <2>2. CASE k[1] \notin L
    BY <2>2 DEF Deallocated
  <2> QED BY <2>1, <2>2
<1>2. take = [k \in Rows |-> take[k]]
  BY DEF Deallocated
<1> HIDE DEF take
<1>3. take \in [Rows -> Nat]
  BY <1>1, <1>2
<1> QED BY <1>1, <1>3 DEF take

(* What bulk_update subtracts from a counter is a number.                   *)
LEMMA FirstGivenType ==
  ASSUME NEW take \in [Rows -> Nat], NEW s \in Stocks
  PROVE  FirstGiven(take, s) \in Nat
<1> DEFINE given == {k \in RowsOfStock(s) : take[k] > 0}
           first == {k \in given : \A j \in given :
                       k[1] < j[1] \/ (k[1] = j[1] /\ k[3] <= j[3])}
<1>1. first \in SUBSET Rows
  BY RowSets
<1>2. FirstGiven(take, s) = Total(take, first)
  BY DEF FirstGiven
<1> HIDE DEF first
<1> QED BY <1>1, <1>2, TableSums

-----------------------------------------------------------------------------
(* The part of TypeOK about the columns, and the part about the foreign     *)
(* keys of rows of one table.                                               *)
HasStock(rows) == \A k \in Rows : rows[k] # NoRow =>
  k[2] \in stockRows /\ k[2][1] = LineVariant[k[1]]

(* bulk_create keeps a table well formed.                                   *)
LEMMA CreatedRows ==
  ASSUME NEW rows \in [Rows -> RowValue], HasStock(rows),
         NEW take \in [Rows -> Nat],
         \A k \in Rows : take[k] > 0 => k[2] \in stockRows /\ k[2][1] = LineVariant[k[1]]
  PROVE  Created(rows, take) \in [Rows -> RowValue] /\ HasStock(Created(rows, take))
BY DEF Created, RowValue, HasStock

(* The rows an allocation creates.                                          *)
LEMMA AllocationRows ==
  ASSUME TypeOK, NEW rows \in [Rows -> RowValue],
         NEW L \in SUBSET Lines, NEW need, \A l \in L : need[l] \in Int,
         NEW check_reservations \in BOOLEAN
  PROVE  /\ create_allocations(rows, L, need, check_reservations) \in [Rows -> Nat]
         /\ \A k \in Rows : create_allocations(rows, L, need, check_reservations)[k] > 0 =>
              /\ k[1] \in L /\ rows[k] = NoRow /\ IsNextRow(rows, k)
              /\ k[2] \in stockRows /\ k[2][1] = LineVariant[k[1]]
              /\ create_allocations(rows, L, need, check_reservations)[k] <= quantity[k[2]]
              /\ ~check_reservations =>
                   create_allocations(rows, L, need, check_reservations)[k]
                     <= quantity[k[2]] - StockAllocated(rows, k[2])
<1> DEFINE held == [s \in Stocks |->
                      IF check_reservations THEN 0 ELSE StockAllocated(rows, s)]
           reserved == [s \in Stocks |->
                      IF check_reservations THEN StockReserved(s, SameOrder(L)) ELSE 0]
<1>1. ASSUME NEW s \in Stocks PROVE StockAllocated(rows, s) \in Nat
  BY RowSets, TableSums DEF StockAllocated, RowValue, NoRow
<1>2. ASSUME NEW s \in Stocks PROVE StockReserved(s, SameOrder(L)) \in Nat
  <2>1. RowsOfStock(s) \ (RowsOfLines(SameOrder(L)) \cup expired) \in SUBSET Rows
    BY RowSets
  <2>2. \A k \in Rows : reservation[k] \in Int
    BY DEF TypeOK, NoRow
  <2> QED BY <2>1, <2>2, TableSums DEF StockReserved
<1>3. held \in [Stocks -> Int] /\ reserved \in [Stocks -> Int]
  BY <1>1, <1>2
<1>4. create_allocations(rows, L, need, check_reservations)
        = TakeInOrder(rows, L, need, held, reserved, LineCollectionPoint)
  BY DEF create_allocations
<1>5. stockRows \subseteq Stocks /\ quantity \in [Stocks -> Int]
  BY DEF TypeOK
<1>6. ASSUME NEW s \in Stocks, NEW n \in Nat, n <= quantity[s] - held[s] - reserved[s]
      PROVE  n <= quantity[s] /\ (~check_reservations => n <= quantity[s] - StockAllocated(rows, s))
  <2>1. held[s] \in Nat /\ reserved[s] \in Nat
    BY <1>1, <1>2
  <2>2. ~check_reservations => held[s] = StockAllocated(rows, s) /\ reserved[s] = 0
    OBVIOUS
  <2> HIDE DEF held, reserved
  <2> QED BY <1>5, <1>6, <2>1, <2>2
<1> DEFINE take == create_allocations(rows, L, need, check_reservations)
<1> HIDE DEF held, reserved
<1>7. /\ take \in [Rows -> Nat]
      /\ \A k \in Rows : take[k] > 0 =>
           /\ k[1] \in L /\ rows[k] = NoRow /\ IsNextRow(rows, k)
           /\ k[2] \in stockRows /\ k[2][1] = LineVariant[k[1]]
           /\ take[k] <= quantity[k[2]] - held[k[2]] - reserved[k[2]]
  BY <1>3, <1>4, <1>5, TakeInOrderRows
<1> HIDE DEF take
<1>8. \A k \in Rows : take[k] \in Nat /\ k[2] \in Stocks
  BY <1>7 DEF Rows
<1> QED BY <1>6, <1>7, <1>8 DEF take

(* The rows a reservation creates.                                          *)
LEMMA ReservationRows ==
  ASSUME TypeOK, NEW rows, NEW L \in SUBSET Lines, NEW need, \A l \in L : need[l] \in Int
  PROVE  /\ create_stock_reservations(rows, L, need) \in [Rows -> Nat]
         /\ \A k \in Rows : create_stock_reservations(rows, L, need)[k] > 0 =>
              k[1] \in L /\ k[2] \in stockRows /\ k[2][1] = LineVariant[k[1]]
<1> DEFINE held == [s \in Stocks |-> StockAllocated(allocation, s)]
           reserved == [s \in Stocks |-> StockReserved(s, L)]
           point == [l \in Lines |-> NoWarehouse]
<1>1. ASSUME NEW s \in Stocks PROVE StockAllocated(allocation, s) \in Nat
  BY RowSets, TableSums DEF StockAllocated, TypeOK, NoRow
<1>2. ASSUME NEW s \in Stocks PROVE StockReserved(s, L) \in Nat
  <2>1. RowsOfStock(s) \ (RowsOfLines(L) \cup expired) \in SUBSET Rows
    BY RowSets
  <2>2. \A k \in Rows : reservation[k] \in Int
    BY DEF TypeOK, NoRow
  <2> QED BY <2>1, <2>2, TableSums DEF StockReserved
<1>3. held \in [Stocks -> Int] /\ reserved \in [Stocks -> Int]
  BY <1>1, <1>2
<1>4. create_stock_reservations(rows, L, need)
        = TakeInOrder(rows, L, need, held, reserved, point)
  BY DEF create_stock_reservations
<1>5. stockRows \subseteq Stocks /\ quantity \in [Stocks -> Int]
  BY DEF TypeOK
<1> HIDE DEF held, reserved, point
<1>6. /\ TakeInOrder(rows, L, need, held, reserved, point) \in [Rows -> Nat]
      /\ \A k \in Rows : TakeInOrder(rows, L, need, held, reserved, point)[k] > 0 =>
           k[1] \in L /\ k[2] \in stockRows /\ k[2][1] = LineVariant[k[1]]
  BY <1>3, <1>5, TakeInOrderRows
<1> QED BY <1>4, <1>6

-----------------------------------------------------------------------------
(* Each operation keeps the tables well formed.                             *)

(* create_order keeps the tables well formed.                               *)
LEMMA CreateOrderTypes ==
  ASSUME TypeOK, NEW L \in SUBSET Lines, NEW need \in [L -> Int],
         NEW from_checkout \in BOOLEAN, NEW check_reservations \in BOOLEAN,
         create_order(L, need, from_checkout, check_reservations)
  PROVE  TypeOK'
<1> DEFINE take == create_allocations(allocation, L, need, check_reservations)
<1>1. /\ allocation' = Created(allocation, take)
      /\ quantity_allocated' = [s \in Stocks |->
           quantity_allocated[s] + Total(take, RowsOfStock(s))]
      /\ UNCHANGED <<stockRows, quantity, taskVars>>
  BY DEF create_order, allocate_stocks
<1>2. allocation \in [Rows -> RowValue] /\ HasStock(allocation)
  BY DEF TypeOK, RowValue, HasStock
<1>3. /\ take \in [Rows -> Nat]
      /\ \A k \in Rows : take[k] > 0 => k[2] \in stockRows /\ k[2][1] = LineVariant[k[1]]
  <2>1. \A l \in L : need[l] \in Int
    OBVIOUS
  <2>2. /\ take \in [Rows -> Nat]
        /\ \A k \in Rows : take[k] > 0 =>
             /\ k[1] \in L /\ allocation[k] = NoRow /\ IsNextRow(allocation, k)
             /\ k[2] \in stockRows /\ k[2][1] = LineVariant[k[1]]
             /\ take[k] <= quantity[k[2]]
             /\ ~check_reservations => take[k] <= quantity[k[2]] - StockAllocated(allocation, k[2])
    BY <1>2, <2>1, AllocationRows, Zenon
  <2> HIDE DEF take
  <2> QED BY <2>2
<1> HIDE DEF take
<1>4. allocation' \in [Rows -> RowValue] /\ HasStock(allocation')
  BY <1>1, <1>2, <1>3, CreatedRows
<1>5. \A s \in Stocks : Total(take, RowsOfStock(s)) \in Nat
  BY <1>3, RowSets, TableSums
<1>6. quantity_allocated' \in [Stocks -> Int]
  BY <1>1, <1>5 DEF TypeOK
<1>7. /\ reservation' \in [Rows -> RowValue] /\ HasStock(reservation')
      /\ expired' \subseteq {k \in Rows : reservation'[k] # NoRow}
  <2>1. CASE from_checkout
    <3>1. SameOrder(L) \in SUBSET Lines
      BY DEF SameOrder
    <3>2. delete_checkout_lines(SameOrder(L))
      BY <2>1 DEF create_order
    <3> QED BY <3>1, <3>2, RowSets DEF delete_checkout_lines, TypeOK, RowValue, HasStock
  <2>2. CASE ~from_checkout
    BY <2>2 DEF create_order, TypeOK, RowValue, HasStock
  <2> QED BY <2>1, <2>2
<1> QED BY <1>1, <1>4, <1>6, <1>7 DEF TypeOK, RowValue, HasStock, taskVars

(* increase_allocations keeps the tables well formed.                       *)
LEMMA IncreaseAllocationsTypes ==
  ASSUME TypeOK, NEW L \in SUBSET Lines, NEW added \in [L -> Int],
         increase_allocations(L, added)
  PROVE  TypeOK'
<1> DEFINE need == [l \in L |-> added[l] + Total(allocation, RowsOfLines({l}))]
           rows == [k \in Rows |-> IF k[1] \in L THEN NoRow ELSE allocation[k]]
           take == create_allocations(rows, L, need, FALSE)
<1>1. /\ allocation' = Created(rows, take)
      /\ quantity_allocated' = [s \in Stocks |->
           quantity_allocated[s] - Total(allocation, RowsOfLines(L) \cap RowsOfStock(s))
                                 + Total(take, RowsOfStock(s))]
      /\ sweep' = [w \in Sweeper |-> sweep[w] \ RowsOfLines(L)]
      /\ UNCHANGED <<stockRows, quantity, reservation, expired, repair>>
  BY DEF increase_allocations
<1>2. rows \in [Rows -> RowValue] /\ HasStock(rows)
  BY DEF TypeOK, RowValue, HasStock
<1>3. \A k \in Rows : allocation[k] \in Int
  BY DEF TypeOK, NoRow
<1>4. \A l \in L : need[l] \in Int
  <2> SUFFICES ASSUME NEW l \in L PROVE need[l] \in Int
    OBVIOUS
  <2>1. RowsOfLines({l}) \in SUBSET Rows
    BY RowSets
  <2>2. Total(allocation, RowsOfLines({l})) \in Nat
    BY <1>3, <2>1, TableSums
  <2> QED BY <2>2
<1> HIDE DEF need, rows
<1>5. /\ take \in [Rows -> Nat]
      /\ \A k \in Rows : take[k] > 0 => k[2] \in stockRows /\ k[2][1] = LineVariant[k[1]]
  BY <1>2, <1>4, AllocationRows
<1> HIDE DEF take
<1>6. allocation' \in [Rows -> RowValue] /\ HasStock(allocation')
  BY <1>1, <1>2, <1>5, CreatedRows
<1>7. ASSUME NEW s \in Stocks
      PROVE  /\ Total(take, RowsOfStock(s)) \in Nat
             /\ Total(allocation, RowsOfLines(L) \cap RowsOfStock(s)) \in Nat
  BY <1>3, <1>5, RowSets, TableSums
<1>8. quantity_allocated' \in [Stocks -> Int]
  BY <1>1, <1>7 DEF TypeOK
<1>9. sweep' \in [Sweeper -> SUBSET Rows]
  BY <1>1 DEF TypeOK
<1> QED BY <1>1, <1>6, <1>8, <1>9 DEF TypeOK, RowValue, HasStock

(* What deallocate_stock leaves: the same rows, with no more units.         *)
LEMMA DeallocateTypes ==
  ASSUME TypeOK, NEW L \in SUBSET Lines, NEW quantities \in [L -> Int],
         deallocate_stock(L, quantities)
  PROVE  /\ allocation' \in [Rows -> RowValue] /\ HasStock(allocation')
         /\ quantity_allocated' \in [Stocks -> Int]
<1> DEFINE take == Deallocated(L, quantities)
<1>1. /\ allocation' = [k \in Rows |-> allocation[k] - take[k]]
      /\ quantity_allocated' = [s \in Stocks |->
           quantity_allocated[s] - FirstGiven(take, s)]
  BY DEF deallocate_stock
<1>2. allocation \in [Rows -> RowValue] /\ HasStock(allocation)
  BY DEF TypeOK, RowValue, HasStock
<1>3. /\ take \in [Rows -> Nat]
      /\ \A k \in Rows : take[k] > 0 => take[k] <= allocation[k]
  BY <1>2, DeallocatedRows
<1> HIDE DEF take
<1>4. \A s \in Stocks : FirstGiven(take, s) \in Nat
  BY <1>3, FirstGivenType
<1>5. quantity_allocated' \in [Stocks -> Int]
  BY <1>1, <1>4 DEF TypeOK
<1>6. ASSUME NEW k \in Rows
      PROVE  /\ allocation[k] - take[k] \in RowValue
             /\ allocation[k] - take[k] # NoRow => allocation[k] # NoRow
  BY <1>2, <1>3 DEF RowValue, NoRow
<1> QED BY <1>1, <1>2, <1>5, <1>6 DEF HasStock

(* decrease_stock keeps the tables well formed.                             *)
LEMMA DecreaseStockTypes ==
  ASSUME TypeOK, NEW L \in SUBSET Lines, NEW quantities \in [L -> Int],
         NEW W, NEW tracked, NEW exceed,
         decrease_stock(L, quantities, W, tracked, exceed)
  PROVE  TypeOK'
<1> DEFINE target(l) == <<LineVariant[l], W[l]>>
           shipped(s) == Total(quantities, {l \in L \cap tracked : target(l) = s})
<1>1. /\ deallocate_stock(L, quantities)
      /\ quantity' = [s \in Stocks |->
           IF s \in stockRows THEN quantity[s] - shipped(s) ELSE quantity[s]]
      /\ UNCHANGED <<stockRows, reservation, expired, taskVars>>
  BY DEF decrease_stock
<1>2. ASSUME NEW s \in Stocks PROVE shipped(s) \in Nat
  <2>1. IsFiniteSet({l \in L \cap tracked : target(l) = s})
    BY LinesAssumption, FS_Subset
  <2> QED BY <2>1, TotalType
<1> HIDE DEF shipped
<1>3. quantity' \in [Stocks -> Int]
  BY <1>1, <1>2 DEF TypeOK
<1>4. /\ allocation' \in [Rows -> RowValue] /\ HasStock(allocation')
      /\ quantity_allocated' \in [Stocks -> Int]
  BY <1>1, DeallocateTypes
<1> QED BY <1>1, <1>3, <1>4 DEF TypeOK, RowValue, HasStock, taskVars

(* increase_stock keeps the tables well formed.                             *)
LEMMA IncreaseStockTypes ==
  ASSUME TypeOK, NEW l \in Lines, NEW w \in Warehouses, NEW restocked \in Nat,
         increase_stock(l, w, restocked)
  PROVE  TypeOK'
<1> DEFINE s == <<LineVariant[l], w>>
<1>1. PICK c \in Copies :
        /\ stockRows' = stockRows \cup {s}
        /\ quantity' = [quantity EXCEPT ![s] = @ + restocked]
        /\ allocation' = [allocation EXCEPT ![<<l, s, c>>] =
                            IF @ = NoRow THEN restocked ELSE @ + restocked]
        /\ quantity_allocated' = [quantity_allocated EXCEPT ![s] = @ + restocked]
        /\ UNCHANGED <<reservation, expired, taskVars>>
  BY DEF increase_stock
<1>2. s \in Stocks /\ s[1] = LineVariant[l]
  BY LineVariantAssumption DEF Stocks
<1> HIDE DEF s
<1> DEFINE k == <<l, s, c>>
<1>3. k \in Rows /\ k[1] = l /\ k[2] = s
  BY <1>2 DEF Rows
<1> HIDE DEF k
<1>4. allocation' = [allocation EXCEPT ![k] =
                       IF @ = NoRow THEN restocked ELSE @ + restocked]
  BY <1>1 DEF k
<1>5. allocation' \in [Rows -> Nat \cup {NoRow}]
  BY <1>3, <1>4 DEF TypeOK, NoRow
<1>6. /\ quantity' \in [Stocks -> Int]
      /\ quantity_allocated' \in [Stocks -> Int]
  BY <1>1, <1>2 DEF TypeOK
<1>7. ASSUME NEW j \in Rows, allocation'[j] # NoRow \/ reservation'[j] # NoRow
      PROVE  j[2] \in stockRows' /\ j[2][1] = LineVariant[j[1]]
  BY <1>1, <1>2, <1>3, <1>4, <1>7 DEF TypeOK
<1> QED BY <1>1, <1>2, <1>5, <1>6, <1>7 DEF TypeOK, taskVars

(* deallocate_stock_for_orders keeps the tables well formed.                *)
LEMMA DeallocateForOrdersTypes ==
  ASSUME TypeOK, NEW L \in SUBSET Lines, deallocate_stock_for_orders(L)
  PROVE  TypeOK'
<1>1. \A k \in Rows : allocation[k] \in Int
  BY DEF TypeOK, NoRow
<1>2. \A s \in Stocks : Total(allocation, RowsOfLines(L) \cap RowsOfStock(s)) \in Nat
  BY <1>1, RowSets, TableSums
<1>3. quantity_allocated' \in [Stocks -> Int]
  BY <1>2 DEF TypeOK, deallocate_stock_for_orders
<1>4. allocation' \in [Rows -> RowValue] /\ HasStock(allocation')
  BY DEF TypeOK, deallocate_stock_for_orders, RowValue, HasStock, NoRow
<1> QED BY <1>3, <1>4 DEF TypeOK, deallocate_stock_for_orders, taskVars, RowValue, HasStock

(* delete_order_line keeps the tables well formed.                          *)
LEMMA DeleteOrderLineTypes ==
  ASSUME TypeOK, NEW l \in Lines, NEW ordered \in Int, delete_order_line(l, ordered)
  PROVE  TypeOK'
<1> DEFINE take == Deallocated({l}, [m \in {l} |-> ordered])
<1>1. take \in [Rows -> Nat]
  BY DeallocatedRows DEF TypeOK, RowValue
<1> HIDE DEF take
<1>2. \A s \in Stocks : FirstGiven(take, s) \in Nat
  BY <1>1, FirstGivenType
<1>3. quantity_allocated' = [s \in Stocks |-> quantity_allocated[s] - FirstGiven(take, s)]
  BY DEF delete_order_line, take
<1>4. quantity_allocated' \in [Stocks -> Int]
  BY <1>2, <1>3 DEF TypeOK
<1> QED BY <1>4 DEF TypeOK, delete_order_line

(* reserve_stocks keeps the tables well formed.                             *)
LEMMA ReserveTypes ==
  ASSUME TypeOK, NEW L \in SUBSET Lines, NEW need, \A l \in L : need[l] \in Int,
         NEW others \in SUBSET Lines, reserve_stocks(L, need, others)
  PROVE  TypeOK'
<1> DEFINE rows == [k \in Rows |-> IF k[1] \in L THEN NoRow ELSE reservation[k]]
           take == create_stock_reservations(rows, L, need)
<1>1. /\ reservation' = Created(rows, take)
      /\ expired' = expired \ RowsOfLines(L \cup others)
      /\ UNCHANGED <<stockVars, allocation, taskVars>>
  BY DEF reserve_stocks
<1>2. rows \in [Rows -> RowValue] /\ HasStock(rows)
  BY DEF TypeOK, RowValue, HasStock
<1>3. /\ take \in [Rows -> Nat]
      /\ \A k \in Rows : take[k] > 0 =>
           k[1] \in L /\ k[2] \in stockRows /\ k[2][1] = LineVariant[k[1]]
  BY ReservationRows
<1> HIDE DEF take
<1>4. reservation' \in [Rows -> RowValue] /\ HasStock(reservation')
  BY <1>1, <1>2, <1>3, CreatedRows
<1>5. ASSUME NEW k \in expired' PROVE k \in Rows /\ reservation'[k] # NoRow
  <2>1. k \in Rows /\ k[1] \notin L /\ reservation[k] # NoRow
    BY <1>1, RowSets DEF TypeOK
  <2>2. reservation'[k] = reservation[k]
    BY <1>1, <1>3, <2>1 DEF Created
  <2> QED BY <2>1, <2>2
<1> QED BY <1>1, <1>4, <1>5 DEF TypeOK, RowValue, HasStock, stockVars, taskVars

(* _reserve_stocks_without_availability_check keeps them well formed.       *)
LEMMA ReserveWithoutCheckTypes ==
  ASSUME TypeOK, NEW L \in SUBSET Lines, NEW need \in [L -> Nat],
         reserve_without_availability_check(L, need)
  PROVE  TypeOK'
<1> DEFINE isLast(k) == /\ k[2] \in LineStocks(k[1])
                        /\ \A t \in LineStocks(k[1]) : t[2] <= k[2][2]
           added == {k \in RowsOfLines(L) : isLast(k) /\ IsNextRow(reservation, k)}
<1>1. /\ reservation' = [k \in Rows |-> IF k \in added THEN need[k[1]] ELSE reservation[k]]
      /\ UNCHANGED <<stockVars, allocation, expired, taskVars>>
  BY DEF reserve_without_availability_check
<1>2. ASSUME NEW k \in added
      PROVE  k[1] \in L /\ k[2] \in stockRows /\ k[2][1] = LineVariant[k[1]]
  BY RowSets DEF LineStocks
<1> HIDE DEF added
<1>3. reservation' \in [Rows -> RowValue]
  BY <1>1, <1>2 DEF TypeOK, RowValue
<1>4. HasStock(reservation')
  BY <1>1, <1>2 DEF TypeOK, HasStock
<1>5. \A k \in expired : reservation'[k] # NoRow
  BY <1>1, <1>2 DEF TypeOK, NoRow
<1> QED BY <1>1, <1>3, <1>4, <1>5 DEF TypeOK, RowValue, HasStock, stockVars, taskVars

(* delete_stocks leaves no row without its stock.                           *)
LEMMA DeleteStocksTypes ==
  ASSUME TypeOK, NEW S \in SUBSET stockRows, delete_stocks(S)
  PROVE  TypeOK'
<1>1. /\ stockRows' \subseteq Stocks
      /\ quantity' \in [Stocks -> Int] /\ quantity_allocated' \in [Stocks -> Int]
  BY DEF TypeOK, delete_stocks
<1>2. /\ allocation' \in [Rows -> Nat \cup {NoRow}]
      /\ reservation' \in [Rows -> Nat \cup {NoRow}]
      /\ expired' \subseteq {k \in Rows : reservation'[k] # NoRow}
  BY DEF TypeOK, delete_stocks
<1>3. /\ sweep' \in [Sweeper -> SUBSET Rows]
      /\ repair' \in [Sweeper -> [Stocks -> Nat \cup {NoRow}]]
  BY DEF TypeOK, delete_stocks
<1>4. ASSUME NEW k \in Rows, allocation'[k] # NoRow \/ reservation'[k] # NoRow
      PROVE  k[2] \in stockRows' /\ k[2][1] = LineVariant[k[1]]
  BY <1>4 DEF TypeOK, delete_stocks
<1> QED BY <1>1, <1>2, <1>3, <1>4 DEF TypeOK

(* The celery tasks keep the tables well formed.                            *)
LEMMA SweeperTypes ==
  ASSUME TypeOK, NEW w \in Sweeper, SweeperStep(w)
  PROVE  TypeOK'
<1>1. CASE delete_empty_allocations_read(w)
  BY <1>1 DEF TypeOK, delete_empty_allocations_read, EmptyRows, stockVars
<1>2. CASE delete_allocations(w)
  BY <1>2 DEF TypeOK, delete_allocations, stockVars
<1>3. CASE update_quantity_allocated_read(w)
  <2>1. \A k \in Rows : allocation[k] \in Int
    BY DEF TypeOK, NoRow
  <2>2. \A s \in Stocks : StockAllocated(allocation, s) \in Nat
    BY <2>1, RowSets, TableSums DEF StockAllocated
  <2> DEFINE sums == [s \in Stocks |->
               IF s \in Mismatched THEN StockAllocated(allocation, s) ELSE NoRow]
  <2>3. sums \in [Stocks -> Nat \cup {NoRow}]
    BY <2>2
  <2>4. repair' = [repair EXCEPT ![w] = sums]
    BY <1>3 DEF update_quantity_allocated_read
  <2> HIDE DEF sums
  <2>5. repair' \in [Sweeper -> [Stocks -> Nat \cup {NoRow}]]
    BY <2>3, <2>4 DEF TypeOK
  <2> QED BY <1>3, <2>5 DEF TypeOK, update_quantity_allocated_read, stockVars
<1>4. CASE stock_bulk_update(w)
  <2>1. quantity_allocated' \in [Stocks -> Int]
    BY <1>4 DEF TypeOK, stock_bulk_update, NoRow
  <2>2. NothingRead \in [Stocks -> Nat \cup {NoRow}]
    BY DEF NothingRead
  <2>3. repair' \in [Sweeper -> [Stocks -> Nat \cup {NoRow}]]
    BY <1>4, <2>2 DEF TypeOK, stock_bulk_update
  <2> QED BY <1>4, <2>1, <2>3 DEF TypeOK, stock_bulk_update
<1> QED BY <1>1, <1>2, <1>3, <1>4 DEF SweeperStep

-----------------------------------------------------------------------------
(* The empty tables are well formed.                                        *)
LEMMA InitTypes == WarehouseInit => TypeOK
<1> SUFFICES ASSUME WarehouseInit PROVE TypeOK
  OBVIOUS
<1>1. repair \in [Sweeper -> [Stocks -> Nat \cup {NoRow}]]
  BY DEF WarehouseInit, NothingRead
<1> QED BY <1>1 DEF WarehouseInit, TypeOK, NoRow

(* Every step keeps the tables well formed, one case per operation.         *)
LEMMA NextTypes == TypeOK /\ [WarehouseNext]_vars => TypeOK'
<1> SUFFICES ASSUME TypeOK, [WarehouseNext]_vars PROVE TypeOK'
  OBVIOUS
<1>1. CASE OrderStep
  <2>0. PICK L \in Requests : \E q \in Quantities(L) :
          \/ create_order(L, q, TRUE, TRUE)
          \/ create_order(L, q, FALSE, ReservationsEnabled)
          \/ increase_allocations(L, q)
          \/ decrease_allocations(L, q)
          \/ \E W \in [L -> Warehouses \cup {NoWarehouse}], tracked \in SUBSET L,
               exceed \in BOOLEAN : decrease_stock(L, q, W, tracked, exceed)
    BY <1>1 DEF OrderStep
  <2>1. PICK q \in Quantities(L) :
          \/ create_order(L, q, TRUE, TRUE)
          \/ create_order(L, q, FALSE, ReservationsEnabled)
          \/ increase_allocations(L, q)
          \/ decrease_allocations(L, q)
          \/ \E W \in [L -> Warehouses \cup {NoWarehouse}], tracked \in SUBSET L,
               exceed \in BOOLEAN : decrease_stock(L, q, W, tracked, exceed)
    BY <2>0
  <2>2. L \in SUBSET Lines /\ q \in [L -> Int]
    BY BoundAssumption DEF Requests, Quantities
  <2>3. CASE create_order(L, q, TRUE, TRUE)
    BY <2>2, <2>3, CreateOrderTypes
  <2>4. CASE create_order(L, q, FALSE, ReservationsEnabled)
    BY <2>2, <2>4, CreateOrderTypes, SettingsAssumption
  <2>5. CASE increase_allocations(L, q)
    BY <2>2, <2>5, IncreaseAllocationsTypes
  <2>6. CASE decrease_allocations(L, q)
    <3>1. /\ allocation' \in [Rows -> RowValue] /\ HasStock(allocation')
          /\ quantity_allocated' \in [Stocks -> Int]
      BY <2>2, <2>6, DeallocateTypes DEF decrease_allocations
    <3> QED BY <2>6, <3>1 DEF decrease_allocations, TypeOK, RowValue, HasStock, taskVars
  <2>7. ASSUME NEW W \in [L -> Warehouses \cup {NoWarehouse}], NEW tracked \in SUBSET L,
               NEW exceed \in BOOLEAN, decrease_stock(L, q, W, tracked, exceed)
        PROVE  TypeOK'
    BY <2>2, <2>7, DecreaseStockTypes
  <2> QED BY <2>1, <2>3, <2>4, <2>5, <2>6, <2>7
<1>2. CASE LineStep
  <2>1. PICK l \in Lines, q \in 1 .. MaxNeed :
          \/ \E w \in Warehouses : increase_stock(l, w, q)
          \/ delete_order_line(l, q)
    BY <1>2 DEF LineStep
  <2>2. q \in Nat
    BY BoundAssumption
  <2> QED BY <2>1, <2>2, IncreaseStockTypes, DeleteOrderLineTypes
<1>3. ASSUME NEW L \in SUBSET Lines, deallocate_stock_for_orders(L) PROVE TypeOK'
  BY <1>3, DeallocateForOrdersTypes
<1>4. CASE CheckoutStep
  <2>1. PICK L \in Requests :
          \/ \E q \in Quantities(L), tracked \in SUBSET L :
                \E refreshed \in SUBSET (SameOrder(L) \ L) :
                  reserve_stocks(tracked, q, refreshed)
          \/ \E q \in Quantities(L) : reserve_without_availability_check(L, q)
          \/ delete_checkout_lines(L) /\ UNCHANGED <<stockVars, allocation, taskVars>>
    BY <1>4 DEF CheckoutStep
  <2>2. L \in SUBSET Lines /\ \A q \in Quantities(L) : q \in [L -> Nat]
    BY BoundAssumption DEF Requests, Quantities
  <2>3. ASSUME NEW q \in Quantities(L), NEW tracked \in SUBSET L,
               NEW refreshed \in SUBSET (SameOrder(L) \ L),
               reserve_stocks(tracked, q, refreshed)
        PROVE  TypeOK'
    <3>1. /\ tracked \in SUBSET Lines /\ \A l \in tracked : q[l] \in Int
          /\ refreshed \in SUBSET Lines
      BY <2>2 DEF SameOrder
    <3> QED BY <2>3, <3>1, ReserveTypes
  <2>4. ASSUME NEW q \in Quantities(L), reserve_without_availability_check(L, q)
        PROVE  TypeOK'
    BY <2>2, <2>4, ReserveWithoutCheckTypes
  <2>5. CASE delete_checkout_lines(L) /\ UNCHANGED <<stockVars, allocation, taskVars>>
    BY <2>2, <2>5, RowSets DEF delete_checkout_lines, TypeOK, stockVars, taskVars
  <2> QED BY <2>1, <2>3, <2>4, <2>5
<1>5. ASSUME NEW k \in Rows, ReservationExpires(k) PROVE TypeOK'
  BY <1>5 DEF ReservationExpires, TypeOK, stockVars, taskVars
<1>6. CASE delete_expired_reservations_task
  BY <1>6 DEF delete_expired_reservations_task, TypeOK, stockVars, taskVars
<1>7. ASSUME NEW s \in Stocks, NEW q \in 0 .. MaxQuantity,
             update_or_create_variant_stocks(s, q)
      PROVE  TypeOK'
  BY <1>7, BoundAssumption DEF update_or_create_variant_stocks, TypeOK, taskVars
<1>8. ASSUME NEW S \in SUBSET stockRows, delete_stocks(S) PROVE TypeOK'
  BY <1>8, DeleteStocksTypes
<1>9. ASSUME NEW w \in Sweeper, SweeperStep(w) PROVE TypeOK'
  BY <1>9, SweeperTypes
<1>10. CASE UNCHANGED vars
  BY <1>10 DEF vars, stockVars, taskVars, TypeOK
<1> QED
  BY <1>1, <1>2, <1>3, <1>4, <1>5, <1>6, <1>7, <1>8, <1>9, <1>10 DEF WarehouseNext

(* Whatever the operations of management.py, reservations.py and tasks.py   *)
(* do in whatever order, the tables stay well formed.                       *)
THEOREM TablesAreWellFormed == WarehouseSpec => []TypeOK
BY InitTypes, NextTypes, PTL DEF WarehouseSpec

-----------------------------------------------------------------------------
(* No order has two lines of one variant.                                   *)
DistinctVariants ==
  \A l, m \in Lines :
    LineOrder[l] = LineOrder[m] /\ LineVariant[l] = LineVariant[m] => l = m

(* The rows of a stock are finitely many, and hold numbers.                 *)
LEMMA StockRows ==
  ASSUME TypeOK, NEW s \in Stocks
  PROVE  /\ RowsOfStock(s) \in SUBSET Rows /\ IsFiniteSet(RowsOfStock(s))
         /\ \A k \in Rows : allocation[k] \in Int
         /\ StockAllocated(allocation, s) \in Nat
<1>1. RowsOfStock(s) \in SUBSET Rows /\ IsFiniteSet(RowsOfStock(s))
  BY RowSets, RowsAreFinite
<1>2. \A k \in Rows : allocation[k] \in Int
  BY DEF TypeOK, NoRow
<1> QED BY <1>1, <1>2, TableSums DEF StockAllocated

(* When one row of a stock gives, bulk_update subtracts what was given.     *)
LEMMA OneGiver ==
  ASSUME TypeOK, NEW s \in Stocks, NEW take \in [Rows -> Nat],
         \A k \in Rows : take[k] > 0 => take[k] <= allocation[k],
         \A j, k \in RowsOfStock(s) : take[j] > 0 /\ take[k] > 0 => j = k
  PROVE  StockAllocated([k \in Rows |-> allocation[k] - take[k]], s)
           = StockAllocated(allocation, s) - FirstGiven(take, s)
<1> DEFINE left == [k \in Rows |-> allocation[k] - take[k]]
           K == RowsOfStock(s)
           given == {k \in K : take[k] > 0}
           first == {k \in given : \A j \in given :
                       k[1] < j[1] \/ (k[1] = j[1] /\ k[3] <= j[3])}
<1>1. FirstGiven(take, s) = Total(take, first)
  BY DEF FirstGiven
<1>2. /\ K \in SUBSET Rows /\ IsFiniteSet(K)
      /\ \A k \in Rows : allocation[k] \in Int
      /\ Total(allocation, K) \in Nat
  BY StockRows DEF StockAllocated
<1>3. \A k \in Rows : left[k] \in Int /\ left[k] = allocation[k] - take[k]
  BY <1>2
<1>4. CASE given = {}
  <2>1. Total(take, first) = 0
    BY <1>4, TotalZero
  <2>2. \A k \in K : left[k] = allocation[k]
    BY <1>2, <1>3, <1>4
  <2>3. Total(left, K) = Total(allocation, K)
    BY <2>2, TotalSame
  <2> QED BY <1>1, <1>2, <2>1, <2>3 DEF StockAllocated
<1>5. CASE given # {}
  <2>1. PICK g \in K : take[g] > 0
    BY <1>5
  <2>2. g \in Rows /\ g[3] \in Nat
    BY <1>2, <2>1, CopiesAssumption DEF Rows, Copies
  <2>3. first = {g}
    BY <2>1, <2>2
  <2>4. Total(take, first) = take[g]
    <3>1. Total(take, {g}) = IF take[g] > 0 THEN take[g] ELSE 0
      BY <2>2, TotalOne
    <3> QED BY <2>1, <2>3, <3>1
  <2>5. /\ Total(allocation, K \ {g}) \in Nat
        /\ Total(allocation, K) = Total(allocation, K \ {g})
                                    + (IF allocation[g] > 0 THEN allocation[g] ELSE 0)
    BY <1>2, <2>1, TotalWithout
  <2>6. Total(left, K) = Total(left, K \ {g}) + (IF left[g] > 0 THEN left[g] ELSE 0)
    <3> HIDE DEF left
    <3> QED BY <1>2, <1>3, <2>1, TotalWithout
  <2>7. Total(left, K \ {g}) = Total(allocation, K \ {g})
    <3>1. \A k \in K \ {g} : left[k] = allocation[k]
      BY <1>2, <1>3, <2>1
    <3> QED BY <3>1, TotalSame
  <2>8. /\ take[g] \in Nat /\ allocation[g] \in Int
        /\ take[g] <= allocation[g] /\ left[g] = allocation[g] - take[g]
    BY <1>2, <1>3, <2>1, <2>2
  <2> HIDE DEF left
  <2>9. Total(left, K) = Total(allocation, K) - take[g]
    BY <2>1, <2>5, <2>6, <2>7, <2>8
  <2> QED BY <1>1, <2>4, <2>9 DEF StockAllocated, left
<1> QED BY <1>4, <1>5

(* In one call the rows that give are on different stocks.                  *)
LEMMA GiversOnDifferentStocks ==
  ASSUME TypeOK, DistinctVariants, MaxCopies = 1,
         NEW L \in Requests, NEW quantities, \A l \in L : quantities[l] \in Int,
         NEW s \in Stocks, NEW j \in RowsOfStock(s), NEW k \in RowsOfStock(s),
         Deallocated(L, quantities)[j] > 0, Deallocated(L, quantities)[k] > 0
  PROVE  j = k
<1>1. j \in Rows /\ k \in Rows /\ j[2] = s /\ k[2] = s
  BY RowSets
<1>2. L \in SUBSET Lines /\ \A l, m \in L : LineOrder[l] = LineOrder[m]
  BY DEF Requests
<1>3. allocation \in [Rows -> RowValue]
  BY DEF TypeOK, RowValue
<1>4. /\ Deallocated(L, quantities) \in [Rows -> Nat]
      /\ \A i \in Rows : Deallocated(L, quantities)[i] > 0 =>
           i[1] \in L /\ Deallocated(L, quantities)[i] <= allocation[i]
  BY <1>2, <1>3, DeallocatedRows
<1>5. j[1] \in L /\ k[1] \in L /\ allocation[j] # NoRow /\ allocation[k] # NoRow
  BY <1>1, <1>3, <1>4 DEF NoRow, RowValue
<1>6. s[1] = LineVariant[j[1]] /\ s[1] = LineVariant[k[1]]
  BY <1>1, <1>5 DEF TypeOK
<1>7. j[1] = k[1]
  BY <1>2, <1>5, <1>6 DEF DistinctVariants
<1>8. j[3] = k[3]
  <2>1. j[3] \in 1 .. 1 /\ k[3] \in 1 .. 1
    BY <1>1 DEF Rows, Copies
  <2> QED BY <2>1
<1> QED BY <1>1, <1>7, <1>8 DEF Rows

(* deallocate_stock keeps the counter of every stock right.                 *)
LEMMA DeallocateCounts ==
  ASSUME TypeOK, CounterMatchesRows, DistinctVariants, MaxCopies = 1,
         NEW L \in Requests, NEW quantities, \A l \in L : quantities[l] \in Int,
         deallocate_stock(L, quantities)
  PROVE  CounterMatchesRows'
<1> DEFINE take == Deallocated(L, quantities)
<1>1. /\ allocation' = [k \in Rows |-> allocation[k] - take[k]]
      /\ quantity_allocated' = [s \in Stocks |->
           quantity_allocated[s] - FirstGiven(take, s)]
  BY DEF deallocate_stock
<1>2. L \in SUBSET Lines /\ allocation \in [Rows -> RowValue]
  BY DEF Requests, TypeOK, RowValue
<1>3. /\ take \in [Rows -> Nat]
      /\ \A k \in Rows : take[k] > 0 => take[k] <= allocation[k]
  BY <1>2, DeallocatedRows
<1>4. ASSUME NEW s \in Stocks
      PROVE  \A j, k \in RowsOfStock(s) : take[j] > 0 /\ take[k] > 0 => j = k
  BY GiversOnDifferentStocks
<1> HIDE DEF take
<1>5. ASSUME NEW s \in Stocks
      PROVE  StockAllocated(allocation', s) = StockAllocated(allocation, s) - FirstGiven(take, s)
  BY <1>1, <1>3, <1>4, OneGiver
<1>6. ASSUME NEW s \in Stocks
      PROVE  quantity_allocated'[s] = StockAllocated(allocation', s)
  BY <1>1, <1>5 DEF CounterMatchesRows
<1> QED BY <1>6 DEF CounterMatchesRows

(* delete_order_line with a quantity that covers what the line holds.       *)
LEMMA DeleteOrderLineCounts ==
  ASSUME TypeOK, CounterMatchesRows, DistinctVariants, MaxCopies = 1,
         NEW l \in Lines, NEW ordered \in Int,
         Total(allocation, RowsOfLines({l})) <= ordered, delete_order_line(l, ordered)
  PROVE  CounterMatchesRows'
<1> DEFINE quantities == [m \in {l} |-> ordered]
           take == Deallocated({l}, quantities)
           left == [k \in Rows |-> allocation[k] - take[k]]
<1>1. /\ quantity_allocated' = [s \in Stocks |-> quantity_allocated[s] - FirstGiven(take, s)]
      /\ allocation' = [k \in Rows |-> IF k[1] = l THEN NoRow ELSE allocation[k]]
  BY DEF delete_order_line
<1>2. {l} \in Requests /\ allocation \in [Rows -> RowValue]
  BY DEF Requests, TypeOK, RowValue
<1>3. /\ take \in [Rows -> Nat]
      /\ \A k \in Rows : take[k] > 0 => k[1] = l /\ take[k] <= allocation[k]
  BY <1>2, DeallocatedRows
<1>4. ASSUME NEW s \in Stocks
      PROVE  \A j, k \in RowsOfStock(s) : take[j] > 0 /\ take[k] > 0 => j = k
  BY <1>2, GiversOnDifferentStocks
<1>5. ASSUME NEW s \in Stocks
      PROVE  StockAllocated(left, s) = StockAllocated(allocation, s) - FirstGiven(take, s)
  <2> HIDE DEF take
  <2> QED BY <1>3, <1>4, OneGiver
<1>6. ASSUME NEW k \in Rows, k[1] = l, allocation[k] > 0
      PROVE  take[k] = allocation[k]
  <2> DEFINE earlier(j) == {i \in RowsOfLines({k[1]}) :
                              /\ i[2][1] = j[2][1]
                              /\ \/ i[2][2] < j[2][2]
                                 \/ i[2][2] = j[2][2] /\ i[3] < j[3]}
             A == earlier(k)
             K == RowsOfLines({l})
  <2>1. take[k] = Fill(ordered, allocation, [j \in Rows |-> earlier(j)])[k]
    BY <1>6 DEF Deallocated
  <2>2. take[k] = LET rest == ordered - Total(allocation, A)
                  IN IF rest <= 0 \/ allocation[k] <= 0 THEN 0
                     ELSE IF rest < allocation[k] THEN rest ELSE allocation[k]
    BY <1>2, <2>1 DEF Fill
  <2>3. K \in SUBSET Rows /\ IsFiniteSet(K) /\ k \in K
    BY <1>6, RowSets, RowsAreFinite
  <2>4. \A j \in K : allocation[j] \in Int
    <3>1. \A j \in Rows : allocation[j] \in Int
      BY DEF TypeOK, NoRow
    <3> QED BY <2>3, <3>1
  <2>5. A \in SUBSET (K \ {k})
    <3>1. k[2] \in Stocks /\ k[3] \in Copies
      BY DEF Rows
    <3>2. k[2][2] \in Int /\ k[3] \in Int
      <4>1. k[2][2] \in Warehouses
        BY <3>1 DEF Stocks
      <4>2. k[3] \in Int
        BY <3>1, CopiesAssumption DEF Copies
      <4>3. Warehouses \subseteq Int
        BY WarehousesAssumption
      <4> QED BY <4>1, <4>2, <4>3
    <3>3. ~(k[2][2] < k[2][2]) /\ ~(k[3] < k[3])
      BY <3>2
    <3>4. k \notin A
      BY <3>3
    <3> QED BY <1>6, <3>4
  <2>6. /\ Total(allocation, K \ {k}) \in Nat
        /\ Total(allocation, K) = Total(allocation, K \ {k}) + allocation[k]
    <3> HIDE DEF K
    <3> QED BY <1>6, <2>3, <2>4, TotalWithout
  <2>7. Total(allocation, A) <= Total(allocation, K \ {k}) /\ Total(allocation, A) \in Nat
    <3>1. IsFiniteSet(K \ {k}) /\ IsFiniteSet(A)
      BY <2>3, <2>5, FS_Difference, FS_Subset
    <3> HIDE DEF A
    <3>2. Total(allocation, A) <= Total(allocation, K \ {k})
      BY <2>4, <2>5, <3>1, TotalSubset
    <3> QED BY <2>4, <2>5, <3>1, <3>2, TotalType
  <2> HIDE DEF A, K, take
  <2>8. Total(allocation, K) <= ordered
    BY DEF K
  <2>9. allocation[k] \in Int
    BY <2>3, <2>4
  <2> QED BY <1>6, <2>2, <2>6, <2>7, <2>8, <2>9
<1>7. ASSUME NEW k \in Rows
      PROVE  \/ allocation'[k] = left[k]
             \/ /\ allocation'[k] \in Int /\ left[k] \in Int
                /\ allocation'[k] <= 0 /\ left[k] <= 0
  <2> HIDE DEF take
  <2>1. allocation[k] \in RowValue /\ take[k] \in Nat
    BY <1>2, <1>3
  <2>2. CASE k[1] = l
    BY <1>1, <1>6, <2>1, <2>2 DEF RowValue, NoRow
  <2>3. CASE k[1] # l
    BY <1>1, <1>3, <2>1, <2>3 DEF RowValue, NoRow
  <2> QED BY <2>2, <2>3
<1>8. ASSUME NEW s \in Stocks PROVE StockAllocated(allocation', s) = StockAllocated(left, s)
  <2> HIDE DEF left
  <2>1. RowsOfStock(s) \in SUBSET Rows
    BY RowSets
  <2> QED BY <1>7, <2>1, TotalSameUnits DEF StockAllocated
<1>9. ASSUME NEW s \in Stocks
      PROVE  quantity_allocated'[s] = StockAllocated(allocation', s)
  <2> HIDE DEF take, left
  <2> QED BY <1>1, <1>5, <1>8 DEF CounterMatchesRows
<1> QED BY <1>9 DEF CounterMatchesRows

(* New rows next to those of the table add their sum.                       *)
LEMMA CreatedCounts ==
  ASSUME NEW rows \in [Rows -> RowValue], NEW take \in [Rows -> Nat],
         \A k \in Rows : take[k] > 0 => rows[k] = NoRow, NEW s \in Stocks
  PROVE  /\ Total(take, RowsOfStock(s)) \in Nat
         /\ StockAllocated(Created(rows, take), s)
              = StockAllocated(rows, s) + Total(take, RowsOfStock(s))
<1> DEFINE made == Created(rows, take)
<1>1. RowsOfStock(s) \in SUBSET Rows /\ IsFiniteSet(RowsOfStock(s))
  BY RowSets, RowsAreFinite
<1>2. \A k \in RowsOfStock(s) : /\ rows[k] \in Int /\ take[k] \in Int
                                /\ take[k] > 0 => rows[k] <= 0
                                /\ made[k] = IF take[k] > 0 THEN take[k] ELSE rows[k]
  BY <1>1 DEF Created, RowValue, NoRow
<1> HIDE DEF made
<1>3. Total(made, RowsOfStock(s)) = Total(rows, RowsOfStock(s)) + Total(take, RowsOfStock(s))
  BY <1>1, <1>2, TotalCreated
<1> QED BY <1>1, <1>2, <1>3, TotalType DEF made, StockAllocated

(* allocate_stocks raises each counter by the units of its new rows.        *)
LEMMA AllocateCounts ==
  ASSUME TypeOK, CounterMatchesRows, NEW L \in SUBSET Lines, NEW need \in [L -> Int],
         NEW check_reservations \in BOOLEAN, allocate_stocks(L, need, check_reservations)
  PROVE  CounterMatchesRows'
<1> DEFINE take == create_allocations(allocation, L, need, check_reservations)
<1>1. /\ allocation' = Created(allocation, take)
      /\ quantity_allocated' = [s \in Stocks |->
           quantity_allocated[s] + Total(take, RowsOfStock(s))]
  BY DEF allocate_stocks
<1>2. allocation \in [Rows -> RowValue]
  BY DEF TypeOK, RowValue
<1>3. take \in [Rows -> Nat] /\ \A k \in Rows : take[k] > 0 => allocation[k] = NoRow
  BY <1>2, AllocationRows
<1> HIDE DEF take
<1>4. ASSUME NEW s \in Stocks
      PROVE  quantity_allocated'[s] = StockAllocated(allocation', s)
  BY <1>1, <1>2, <1>3, CreatedCounts DEF CounterMatchesRows
<1> QED BY <1>4 DEF CounterMatchesRows

(* increase_allocations keeps the counter of every stock right.             *)
LEMMA IncreaseAllocationsCounts ==
  ASSUME TypeOK, CounterMatchesRows, NEW L \in SUBSET Lines, NEW added \in [L -> Int],
         increase_allocations(L, added)
  PROVE  CounterMatchesRows'
<1> DEFINE need == [l \in L |-> added[l] + Total(allocation, RowsOfLines({l}))]
           rows == [k \in Rows |-> IF k[1] \in L THEN NoRow ELSE allocation[k]]
           take == create_allocations(rows, L, need, FALSE)
<1>1. /\ allocation' = Created(rows, take)
      /\ quantity_allocated' = [s \in Stocks |->
           quantity_allocated[s] - Total(allocation, RowsOfLines(L) \cap RowsOfStock(s))
                                 + Total(take, RowsOfStock(s))]
  BY DEF increase_allocations
<1>2. rows \in [Rows -> RowValue]
  BY DEF TypeOK, RowValue
<1>3. \A k \in Rows : allocation[k] \in Int
  BY DEF TypeOK, NoRow
<1>4. \A l \in L : need[l] \in Int
  <2> SUFFICES ASSUME NEW l \in L PROVE need[l] \in Int
    OBVIOUS
  <2>1. RowsOfLines({l}) \in SUBSET Rows
    BY RowSets
  <2>2. Total(allocation, RowsOfLines({l})) \in Nat
    BY <1>3, <2>1, TableSums
  <2> QED BY <2>2
<1>5. ASSUME NEW s \in Stocks
      PROVE  /\ StockAllocated(rows, s) = StockAllocated(allocation, s)
                  - Total(allocation, RowsOfLines(L) \cap RowsOfStock(s))
             /\ Total(allocation, RowsOfLines(L) \cap RowsOfStock(s)) \in Nat
             /\ StockAllocated(allocation, s) \in Nat
  <2>1. /\ RowsOfStock(s) \in SUBSET Rows /\ IsFiniteSet(RowsOfStock(s))
        /\ StockAllocated(allocation, s) \in Nat
    BY StockRows
  <2>2. \A k \in RowsOfStock(s) : IF k \in RowsOfLines(L)
          THEN rows[k] \in Int /\ rows[k] <= 0 ELSE rows[k] = allocation[k]
    BY <2>1, RowSets DEF NoRow
  <2> HIDE DEF rows
  <2>3. Total(rows, RowsOfStock(s)) = Total(allocation, RowsOfStock(s))
          - Total(allocation, RowsOfLines(L) \cap RowsOfStock(s))
    BY <1>3, <2>1, <2>2, TotalCleared
  <2>4. Total(allocation, RowsOfLines(L) \cap RowsOfStock(s)) \in Nat
    BY <1>3, <2>1, TableSums
  <2> QED BY <2>1, <2>3, <2>4 DEF StockAllocated
<1> HIDE DEF need, rows
<1>6. take \in [Rows -> Nat] /\ \A k \in Rows : take[k] > 0 => rows[k] = NoRow
  BY <1>2, <1>4, AllocationRows
<1> HIDE DEF take
<1>7. ASSUME NEW s \in Stocks
      PROVE  quantity_allocated'[s] = StockAllocated(allocation', s)
  <2>1. /\ Total(take, RowsOfStock(s)) \in Nat
        /\ StockAllocated(allocation', s) = StockAllocated(rows, s) + Total(take, RowsOfStock(s))
    BY <1>1, <1>2, <1>6, CreatedCounts
  <2> QED BY <1>1, <1>5, <2>1 DEF CounterMatchesRows
<1> QED BY <1>7 DEF CounterMatchesRows

(* increase_stock raises one row, and with it the sum of every set of rows  *)
(* that has it.                                                             *)
LEMMA IncreaseStockRow ==
  ASSUME TypeOK, NEW l \in Lines, NEW w \in Warehouses, NEW restocked \in Nat,
         increase_stock(l, w, restocked)
  PROVE  \E k \in Rows :
           /\ k[1] = l /\ k[2] = <<LineVariant[l], w>>
           /\ \A K \in SUBSET Rows :
                Total(allocation', K) = Total(allocation, K) + (IF k \in K THEN restocked ELSE 0)
<1> DEFINE s == <<LineVariant[l], w>>
<1>1. PICK c \in Copies : allocation' = [allocation EXCEPT ![<<l, s, c>>] =
                                           IF @ = NoRow THEN restocked ELSE @ + restocked]
  BY DEF increase_stock
<1>2. s \in Stocks
  BY LineVariantAssumption DEF Stocks
<1> HIDE DEF s
<1>3. PICK k : k = <<l, s, c>>
  OBVIOUS
<1>r. k \in Rows /\ k[1] = l /\ k[2] = s
  BY <1>2, <1>3 DEF Rows
<1>4. allocation' = [allocation EXCEPT ![k] = IF @ = NoRow THEN restocked ELSE @ + restocked]
  BY <1>1, <1>3
<1>5. ASSUME NEW K \in SUBSET Rows
      PROVE  Total(allocation', K) = Total(allocation, K) + (IF k \in K THEN restocked ELSE 0)
  <2>1. IsFiniteSet(K) /\ \A j \in Rows : allocation[j] \in RowValue /\ allocation[j] \in Int
    BY RowsAreFinite DEF TypeOK, RowValue, NoRow
  <2>2. \A j \in Rows : allocation'[j] = IF j = k
          THEN (IF allocation[j] = NoRow THEN restocked ELSE allocation[j] + restocked)
          ELSE allocation[j]
    BY <1>4, <1>r DEF TypeOK
  <2>3. \A j \in K : /\ allocation[j] \in Int /\ allocation'[j] \in Int
                     /\ j # k => allocation'[j] = allocation[j]
    BY <2>1, <2>2
  <2>4. Total(allocation', K) = IF k \in K
          THEN Total(allocation, K) - (IF allocation[k] > 0 THEN allocation[k] ELSE 0)
                                    + (IF allocation'[k] > 0 THEN allocation'[k] ELSE 0)
          ELSE Total(allocation, K)
    BY <2>1, <2>3, TotalOneChanged
  <2>5. Total(allocation, K) \in Nat
    BY <2>1, TotalType
  <2> QED BY <2>1, <2>2, <2>4, <2>5 DEF RowValue, NoRow
<1> QED BY <1>r, <1>5 DEF s

(* increase_stock raises the row and the counter alike.                     *)
LEMMA IncreaseStockCounts ==
  ASSUME TypeOK, CounterMatchesRows, NEW l \in Lines, NEW w \in Warehouses,
         NEW restocked \in Nat, increase_stock(l, w, restocked)
  PROVE  CounterMatchesRows'
<1> DEFINE s == <<LineVariant[l], w>>
<1>1. quantity_allocated' = [quantity_allocated EXCEPT ![s] = @ + restocked]
  BY DEF increase_stock
<1>2. s \in Stocks
  BY LineVariantAssumption DEF Stocks
<1>3. PICK k \in Rows :
        /\ k[1] = l /\ k[2] = s
        /\ \A K \in SUBSET Rows :
             Total(allocation', K) = Total(allocation, K) + (IF k \in K THEN restocked ELSE 0)
  BY IncreaseStockRow
<1> HIDE DEF s
<1>4. ASSUME NEW t \in Stocks
      PROVE  quantity_allocated'[t] = StockAllocated(allocation', t)
  <2>1. RowsOfStock(t) \in SUBSET Rows /\ (k \in RowsOfStock(t) <=> t = s)
    BY <1>3, RowSets
  <2>2. StockAllocated(allocation', t)
          = StockAllocated(allocation, t) + (IF t = s THEN restocked ELSE 0)
    BY <1>3, <2>1 DEF StockAllocated
  <2>3. /\ quantity_allocated[t] \in Int
        /\ quantity_allocated'[t] = quantity_allocated[t] + (IF t = s THEN restocked ELSE 0)
    BY <1>1, <1>2 DEF TypeOK
  <2> QED BY <2>2, <2>3 DEF CounterMatchesRows
<1> QED BY <1>4 DEF CounterMatchesRows

(* deallocate_stock_for_orders subtracts the sum of the emptied rows.       *)
LEMMA DeallocateForOrdersCounts ==
  ASSUME TypeOK, CounterMatchesRows, NEW L \in SUBSET Lines, deallocate_stock_for_orders(L)
  PROVE  CounterMatchesRows'
<1>1. ASSUME NEW s \in Stocks
      PROVE  quantity_allocated'[s] = StockAllocated(allocation', s)
  <2>1. /\ RowsOfStock(s) \in SUBSET Rows /\ IsFiniteSet(RowsOfStock(s))
        /\ \A k \in Rows : allocation[k] \in Int
    BY StockRows
  <2>2. \A k \in RowsOfStock(s) : IF k \in RowsOfLines(L)
          THEN allocation'[k] \in Int /\ allocation'[k] <= 0
          ELSE allocation'[k] = allocation[k]
    BY <2>1, RowSets DEF deallocate_stock_for_orders
  <2>3. Total(allocation', RowsOfStock(s)) = Total(allocation, RowsOfStock(s))
          - Total(allocation, RowsOfLines(L) \cap RowsOfStock(s))
    BY <2>1, <2>2, TotalCleared
  <2>4. quantity_allocated'[s] = quantity_allocated[s]
          - Total(allocation, RowsOfLines(L) \cap RowsOfStock(s))
    BY DEF deallocate_stock_for_orders
  <2> QED BY <2>3, <2>4 DEF CounterMatchesRows, StockAllocated
<1> QED BY <1>1 DEF CounterMatchesRows

(* delete_stocks keeps the counters of the remaining stocks right.          *)
LEMMA DeleteStocksCounts ==
  ASSUME TypeOK, CounterMatchesRows, NEW S \in SUBSET stockRows, delete_stocks(S)
  PROVE  CounterMatchesRows'
<1>1. ASSUME NEW s \in Stocks
      PROVE  quantity_allocated'[s] = StockAllocated(allocation', s)
  <2>1. \A k \in RowsOfStock(s) : k \in Rows /\ k[2] = s
    BY RowSets
  <2>2. CASE s \in S
    <3>1. \A k \in RowsOfStock(s) : allocation'[k] = NoRow
      BY <2>1, <2>2 DEF delete_stocks
    <3>2. Total(allocation', RowsOfStock(s)) = 0
      BY <3>1, TotalZero DEF NoRow
    <3> QED BY <2>2, <3>2 DEF delete_stocks, StockAllocated
  <2>3. CASE s \notin S
    <3>1. \A k \in RowsOfStock(s) : allocation'[k] = allocation[k]
      BY <2>1, <2>3 DEF delete_stocks
    <3>2. Total(allocation', RowsOfStock(s)) = Total(allocation, RowsOfStock(s))
      BY <3>1, TotalSame
    <3> QED BY <2>3, <3>2 DEF delete_stocks, StockAllocated, CounterMatchesRows
  <2> QED BY <2>2, <2>3
<1> QED BY <1>1 DEF CounterMatchesRows

(* The denormalised counter is right after every transaction: for every     *)
(* number of orders, lines, stocks and units, as long as no order has two   *)
(* lines of one variant (deallocate_stock loses an update then), a line has *)
(* one row per stock (the constraint the migrations lost) and               *)
(* delete_empty_allocations_task does not run (it deletes rows that were    *)
(* filled since it read them).                                              *)
THEOREM CounterIsTheSumOfTheRows ==
  ASSUME DistinctVariants, MaxCopies = 1, Sweeper = {}
  PROVE  WarehouseSpec => []CounterMatchesRows
<1>1. WarehouseInit => CounterMatchesRows
  <2> SUFFICES ASSUME WarehouseInit, NEW s \in Stocks
               PROVE  quantity_allocated[s] = StockAllocated(allocation, s)
    BY DEF CounterMatchesRows
  <2>1. \A k \in RowsOfStock(s) : allocation[k] = NoRow
    BY RowSets DEF WarehouseInit
  <2>2. Total(allocation, RowsOfStock(s)) = 0
    BY <2>1, TotalZero DEF NoRow
  <2> QED BY <2>2 DEF WarehouseInit, StockAllocated
<1>2. TypeOK /\ CounterMatchesRows /\ [WarehouseNext]_vars => CounterMatchesRows'
  <2> SUFFICES ASSUME TypeOK, CounterMatchesRows, [WarehouseNext]_vars
               PROVE  CounterMatchesRows'
    OBVIOUS
  <2>1. CASE UNCHANGED <<allocation, quantity_allocated>>
    BY <2>1 DEF CounterMatchesRows, StockAllocated
  <2>2. CASE OrderStep
    <3>1. PICK L \in Requests : \E q \in Quantities(L) :
            \/ create_order(L, q, TRUE, TRUE)
            \/ create_order(L, q, FALSE, ReservationsEnabled)
            \/ increase_allocations(L, q)
            \/ deallocate_stock(L, q)
      BY <2>2 DEF OrderStep, decrease_allocations, decrease_stock
    <3>2. PICK q \in Quantities(L) :
            \/ allocate_stocks(L, q, TRUE)
            \/ allocate_stocks(L, q, ReservationsEnabled)
            \/ increase_allocations(L, q)
            \/ deallocate_stock(L, q)
      BY <3>1 DEF create_order
    <3>3. L \in SUBSET Lines /\ q \in [L -> Int]
      BY BoundAssumption DEF Requests, Quantities
    <3>4. CASE allocate_stocks(L, q, TRUE) \/ allocate_stocks(L, q, ReservationsEnabled)
      BY <3>3, <3>4, AllocateCounts, SettingsAssumption
    <3>5. CASE increase_allocations(L, q)
      BY <3>3, <3>5, IncreaseAllocationsCounts
    <3>6. CASE deallocate_stock(L, q)
      BY <3>3, <3>6, DeallocateCounts
    <3> QED BY <3>2, <3>4, <3>5, <3>6
  <2>3. CASE LineStep
    <3>1. PICK l \in Lines, q \in 1 .. MaxNeed :
            \/ \E w \in Warehouses : increase_stock(l, w, q)
            \/ Total(allocation, RowsOfLines({l})) <= q /\ delete_order_line(l, q)
      BY <2>3 DEF LineStep
    <3>2. q \in Nat
      BY BoundAssumption
    <3> QED BY <3>1, <3>2, IncreaseStockCounts, DeleteOrderLineCounts
  <2>4. ASSUME NEW L \in SUBSET Lines, deallocate_stock_for_orders(L)
        PROVE  CounterMatchesRows'
    BY <2>4, DeallocateForOrdersCounts
  <2>5. CASE CheckoutStep
    <3>1. UNCHANGED <<allocation, quantity_allocated>>
      BY <2>5 DEF CheckoutStep, reserve_stocks, reserve_without_availability_check, stockVars
    <3> QED BY <2>1, <3>1
  <2>6. ASSUME NEW S \in SUBSET stockRows, delete_stocks(S) PROVE CounterMatchesRows'
    BY <2>6, DeleteStocksCounts
  <2> QED
    BY <2>1, <2>2, <2>3, <2>4, <2>5, <2>6
    DEF WarehouseNext, vars, stockVars, ReservationExpires,
        delete_expired_reservations_task, update_or_create_variant_stocks
<1> QED BY <1>1, <1>2, TablesAreWellFormed, PTL DEF WarehouseSpec

-----------------------------------------------------------------------------
(* No stock gets deeper into deficit in this step, unless its quantity      *)
(* falls.                                                                   *)
NoDeeper == \A s \in Stocks :
  Deficit(s)' > 0 /\ Deficit(s)' > Deficit(s) => quantity'[s] < quantity[s]

(* A step that adds no units to any row.                                    *)
LEMMA FewerUnitsFit ==
  ASSUME TypeOK, TypeOK', \A k \in Rows : allocation'[k] <= allocation[k] \/ allocation'[k] <= 0
  PROVE  NoDeeper
<1> SUFFICES ASSUME NEW s \in Stocks, Deficit(s)' > 0, Deficit(s)' > Deficit(s)
             PROVE  quantity'[s] < quantity[s]
  BY DEF NoDeeper
<1>1. /\ RowsOfStock(s) \in SUBSET Rows /\ IsFiniteSet(RowsOfStock(s))
      /\ \A k \in Rows : allocation[k] \in Int
      /\ \A k \in Rows : allocation'[k] \in Int
  BY RowSets, RowsAreFinite DEF TypeOK, NoRow
<1>2. Total(allocation', RowsOfStock(s)) <= Total(allocation, RowsOfStock(s))
  BY <1>1, TotalLess
<1>3. Total(allocation', RowsOfStock(s)) \in Nat /\ Total(allocation, RowsOfStock(s)) \in Nat
  BY <1>1, TotalType
<1>4. quantity[s] \in Int /\ quantity'[s] \in Int
  BY DEF TypeOK
<1> QED BY <1>2, <1>3, <1>4 DEF Deficit, StockAllocated

(* New rows for lines of different variants: each stock gets at most one,   *)
(* and that one fits next to the rows that are there.                       *)
LEMMA NewRowsFit ==
  ASSUME TypeOK, DistinctVariants, NEW L \in Requests, NEW need, \A l \in L : need[l] \in Int,
         NEW rows \in [Rows -> RowValue], NEW s \in Stocks,
         NEW k \in RowsOfStock(s), create_allocations(rows, L, need, FALSE)[k] > 0
  PROVE  /\ Total(create_allocations(rows, L, need, FALSE), RowsOfStock(s))
              <= quantity[s] - StockAllocated(rows, s)
<1> DEFINE take == create_allocations(rows, L, need, FALSE)
           K == RowsOfStock(s)
<1>1. L \in SUBSET Lines /\ \A l, m \in L : LineOrder[l] = LineOrder[m]
  BY DEF Requests
<1>2. /\ take \in [Rows -> Nat]
      /\ \A i \in Rows : take[i] > 0 =>
           /\ i[1] \in L /\ rows[i] = NoRow /\ IsNextRow(rows, i)
           /\ i[2][1] = LineVariant[i[1]] /\ take[i] <= quantity[i[2]] - StockAllocated(rows, i[2])
  BY <1>1, AllocationRows
<1>3. take[k] > 0
  OBVIOUS
<1> HIDE DEF take
<1>4. K = {i \in Rows : i[2] = s} /\ k \in K
  BY RowSets
<1> HIDE DEF K
<1>5. ASSUME NEW j \in K, take[j] > 0 PROVE j = k
  <2>1. /\ j \in Rows /\ k \in Rows /\ j[2] = s /\ k[2] = s /\ j[1] \in L /\ k[1] \in L
        /\ IsNextRow(rows, j) /\ IsNextRow(rows, k)
        /\ j[2][1] = LineVariant[j[1]] /\ k[2][1] = LineVariant[k[1]]
    BY <1>2, <1>3, <1>4, <1>5
  <2>2. j[1] = k[1]
    BY <1>1, <2>1 DEF DistinctVariants
  <2>3. /\ j = <<j[1], j[2], j[3]>> /\ k = <<k[1], k[2], k[3]>>
        /\ j[3] \in Copies /\ k[3] \in Copies
    BY <2>1 DEF Rows
  <2>4. j[3] \in Int /\ k[3] \in Int
    BY <2>3 DEF Copies
  <2>5. ~(j[3] < k[3])
    BY <2>1, <2>2, <2>3 DEF IsNextRow
  <2>6. ~(k[3] < j[3])
    BY <2>1, <2>2, <2>3 DEF IsNextRow
  <2>7. j[3] = k[3]
    BY <2>4, <2>5, <2>6
  <2> QED BY <2>1, <2>2, <2>3, <2>7
<1>6. \A j \in K : take[j] \in Nat
  BY <1>2, <1>4
<1>7. \A j \in K : take[j] \in Int /\ (j # k => take[j] <= 0)
  BY <1>5, <1>6
<1>8. Total(take, K) = take[k]
  BY <1>3, <1>4, <1>7, TotalSingle
<1>9. take[k] <= quantity[s] - StockAllocated(rows, s)
  BY <1>2, <1>3, <1>4
<1> QED BY <1>8, <1>9 DEF take, K

(* So a table made of some of the old rows and of new ones puts no stock    *)
(* deeper into deficit.                                                     *)
LEMMA CreatedFits ==
  ASSUME TypeOK, DistinctVariants, NEW L \in Requests, NEW need, \A l \in L : need[l] \in Int,
         NEW rows \in [Rows -> RowValue], \A k \in Rows : rows[k] <= allocation[k] \/ rows[k] = NoRow,
         NEW s \in Stocks
  PROVE  \/ StockAllocated(Created(rows, create_allocations(rows, L, need, FALSE)), s)
              <= quantity[s]
         \/ StockAllocated(Created(rows, create_allocations(rows, L, need, FALSE)), s)
              <= StockAllocated(allocation, s)
<1> DEFINE take == create_allocations(rows, L, need, FALSE)
           K == RowsOfStock(s)
<1>1. L \in SUBSET Lines
  BY DEF Requests
<1>2. take \in [Rows -> Nat] /\ \A k \in Rows : take[k] > 0 => rows[k] = NoRow
  BY <1>1, AllocationRows
<1>3. \A k \in K : take[k] > 0 => Total(take, K) <= quantity[s] - StockAllocated(rows, s)
  BY NewRowsFit
<1> HIDE DEF take
<1>4. /\ Total(take, K) \in Nat
      /\ StockAllocated(Created(rows, take), s) = StockAllocated(rows, s) + Total(take, K)
  BY <1>2, CreatedCounts
<1>5. K \in SUBSET Rows /\ IsFiniteSet(K)
  BY RowSets, RowsAreFinite
<1>6. \A k \in K : /\ rows[k] \in Int /\ allocation[k] \in Int /\ take[k] \in Int
                   /\ rows[k] <= allocation[k] \/ rows[k] <= 0
  BY <1>2, <1>5 DEF TypeOK, RowValue, NoRow
<1>7. Total(rows, K) <= Total(allocation, K) /\ Total(rows, K) \in Nat
  BY <1>5, <1>6, TotalLess, TotalType
<1>8. Total(allocation, K) \in Nat
  BY <1>5, <1>6, TotalType
<1>9. (\A k \in K : take[k] <= 0) => Total(take, K) = 0
  BY <1>6, TotalZero
<1>10. Total(take, K) = 0 \/ Total(take, K) <= quantity[s] - StockAllocated(rows, s)
  BY <1>3, <1>6, <1>9
<1>11. quantity[s] \in Int
  BY DEF TypeOK
<1>12. StockAllocated(rows, s) = Total(rows, K) /\ StockAllocated(allocation, s) = Total(allocation, K)
  BY DEF StockAllocated
<1> HIDE DEF K
<1>13. PICK new, old, kept, made :
         /\ new = Total(take, K) /\ kept = Total(rows, K) /\ old = Total(allocation, K)
         /\ made = StockAllocated(Created(rows, take), s)
  OBVIOUS
<1>14. made <= quantity[s] \/ made <= old
  BY <1>4, <1>7, <1>8, <1>10, <1>11, <1>12, <1>13
<1> QED BY <1>12, <1>13, <1>14 DEF take

LEMMA FitsIsNoDeeper ==
  ASSUME TypeOK, TypeOK', quantity' = quantity,
         \A s \in Stocks : \/ StockAllocated(allocation', s) <= quantity[s]
                           \/ StockAllocated(allocation', s) <= StockAllocated(allocation, s)
  PROVE  NoDeeper
<1>1. ASSUME NEW s \in Stocks
      PROVE  /\ StockAllocated(allocation', s) \in Nat /\ StockAllocated(allocation, s) \in Nat
             /\ quantity[s] \in Int
  <2>1. RowsOfStock(s) \in SUBSET Rows /\ StockAllocated(allocation, s) \in Nat /\ quantity[s] \in Int
    BY StockRows DEF TypeOK
  <2>2. \A k \in Rows : allocation'[k] \in Int
    BY DEF TypeOK, NoRow
  <2>3. Total(allocation', RowsOfStock(s)) \in Nat
    BY <2>1, <2>2, TableSums
  <2> QED BY <2>1, <2>3 DEF StockAllocated
<1> QED BY <1>1 DEF NoDeeper, Deficit

LEMMA AllocateFits ==
  ASSUME TypeOK, TypeOK', DistinctVariants, NEW L \in Requests, NEW need \in [L -> Int],
         allocate_stocks(L, need, FALSE)
  PROVE  NoDeeper
<1>1. /\ allocation' = Created(allocation, create_allocations(allocation, L, need, FALSE))
      /\ quantity' = quantity
  BY DEF allocate_stocks
<1>2. /\ allocation \in [Rows -> RowValue] /\ \A k \in Rows : allocation[k] <= allocation[k]
      /\ \A l \in L : need[l] \in Int
  BY DEF TypeOK, RowValue, NoRow
<1>3. \A s \in Stocks : \/ StockAllocated(allocation', s) <= quantity[s]
                        \/ StockAllocated(allocation', s) <= StockAllocated(allocation, s)
  BY <1>1, <1>2, CreatedFits
<1> QED BY <1>1, <1>3, FitsIsNoDeeper

LEMMA IncreaseAllocationsFits ==
  ASSUME TypeOK, TypeOK', DistinctVariants, NEW L \in Requests, NEW added \in [L -> Int],
         increase_allocations(L, added)
  PROVE  NoDeeper
<1> DEFINE need == [l \in L |-> added[l] + Total(allocation, RowsOfLines({l}))]
           rows == [k \in Rows |-> IF k[1] \in L THEN NoRow ELSE allocation[k]]
<1>1. /\ allocation' = Created(rows, create_allocations(rows, L, need, FALSE))
      /\ quantity' = quantity
  BY DEF increase_allocations
<1>2. \A k \in Rows : allocation[k] \in RowValue /\ allocation[k] \in Int
  BY DEF TypeOK, RowValue, NoRow
<1>3. rows \in [Rows -> RowValue] /\ \A k \in Rows : rows[k] <= allocation[k] \/ rows[k] = NoRow
  BY <1>2 DEF RowValue
<1>4. \A l \in L : need[l] \in Int
  <2> SUFFICES ASSUME NEW l \in L PROVE need[l] \in Int
    OBVIOUS
  <2>1. RowsOfLines({l}) \in SUBSET Rows
    BY RowSets DEF Requests
  <2>2. Total(allocation, RowsOfLines({l})) \in Nat
    BY <1>2, <2>1, TableSums
  <2> QED BY <2>2
<1> HIDE DEF need, rows
<1>5. \A s \in Stocks : \/ StockAllocated(allocation', s) <= quantity[s]
                        \/ StockAllocated(allocation', s) <= StockAllocated(allocation, s)
  BY <1>1, <1>3, <1>4, CreatedFits
<1> QED BY <1>1, <1>5, FitsIsNoDeeper

LEMMA DeallocateFits ==
  ASSUME TypeOK, TypeOK', NEW L \in SUBSET Lines, NEW quantities \in [L -> Int],
         deallocate_stock(L, quantities)
  PROVE  NoDeeper
<1>1. allocation \in [Rows -> RowValue] /\ \A l \in L : quantities[l] \in Int
  BY DEF TypeOK, RowValue
<1>2. \A k \in Rows : allocation[k] \in Int /\ Deallocated(L, quantities)[k] \in Nat
  BY <1>1, DeallocatedRows DEF RowValue, NoRow
<1>3. \A k \in Rows : allocation'[k] = allocation[k] - Deallocated(L, quantities)[k]
  BY DEF deallocate_stock
<1>4. \A k \in Rows : allocation'[k] <= allocation[k]
  BY <1>2, <1>3
<1> QED BY <1>4, FewerUnitsFit

LEMMA IncreaseStockFits ==
  ASSUME TypeOK, NEW l \in Lines, NEW w \in Warehouses, NEW restocked \in Nat,
         increase_stock(l, w, restocked)
  PROVE  NoDeeper
<1> DEFINE s == <<LineVariant[l], w>>
<1>1. quantity' = [quantity EXCEPT ![s] = @ + restocked]
  BY DEF increase_stock
<1>2. s \in Stocks
  BY LineVariantAssumption DEF Stocks
<1>3. PICK k \in Rows :
        /\ k[1] = l /\ k[2] = s
        /\ \A K \in SUBSET Rows :
             Total(allocation', K) = Total(allocation, K) + (IF k \in K THEN restocked ELSE 0)
  BY IncreaseStockRow
<1> HIDE DEF s
<1>4. ASSUME NEW t \in Stocks PROVE Deficit(t)' = Deficit(t)
  <2>1. RowsOfStock(t) \in SUBSET Rows /\ (k \in RowsOfStock(t) <=> t = s)
    BY <1>3, RowSets
  <2>2. StockAllocated(allocation', t)
          = StockAllocated(allocation, t) + (IF t = s THEN restocked ELSE 0)
    BY <1>3, <2>1 DEF StockAllocated
  <2>3. /\ quantity[t] \in Int
        /\ quantity'[t] = quantity[t] + (IF t = s THEN restocked ELSE 0)
    BY <1>1, <1>2 DEF TypeOK
  <2>4. StockAllocated(allocation, t) \in Nat
    BY StockRows
  <2> QED BY <2>2, <2>3, <2>4 DEF Deficit
<1>5. ASSUME NEW t \in Stocks PROVE Deficit(t) \in Int
  <2>1. StockAllocated(allocation, t) \in Nat /\ quantity[t] \in Int
    BY StockRows DEF TypeOK
  <2> QED BY <2>1 DEF Deficit
<1> QED BY <1>4, <1>5 DEF NoDeeper

(* An allocation never promises units that are not there, whatever the      *)
(* other callers, the staff and the tasks do, where reservations are off,   *)
(* no order comes from a checkout and no order has two lines of a variant.  *)
(* With reservations create_allocations sees no allocation at all, and two  *)
(* lines of one variant are given the same units.                           *)
THEOREM AllocationsFitTheStock ==
  ASSUME DistinctVariants, ReservationsEnabled = FALSE, CheckoutOrders = {}
  PROVE  WarehouseSpec => AllocationsFit
<1>1. TypeOK /\ TypeOK' /\ [WarehouseNext]_vars => [NoDeeper]_vars
  <2> SUFFICES ASSUME TypeOK, TypeOK', WarehouseNext PROVE NoDeeper
    OBVIOUS
  <2>1. CASE OrderStep
    <3>1. PICK L \in Requests : \E q \in Quantities(L) :
            \/ OrdersOf(L) \subseteq CheckoutOrders
            \/ create_order(L, q, FALSE, ReservationsEnabled)
            \/ increase_allocations(L, q)
            \/ deallocate_stock(L, q)
      BY <2>1 DEF OrderStep, decrease_allocations, decrease_stock
    <3>2. OrdersOf(L) # {}
      BY DEF Requests, OrdersOf
    <3>3. PICK q \in Quantities(L) :
            \/ allocate_stocks(L, q, FALSE)
            \/ increase_allocations(L, q)
            \/ deallocate_stock(L, q)
      BY <3>1, <3>2 DEF create_order
    <3>4. L \in SUBSET Lines /\ q \in [L -> Int]
      BY BoundAssumption DEF Requests, Quantities
    <3> QED BY <3>3, <3>4, AllocateFits, IncreaseAllocationsFits, DeallocateFits
  <2>2. CASE LineStep
    <3>1. PICK l \in Lines, q \in 1 .. MaxNeed :
            (\E w \in Warehouses : increase_stock(l, w, q)) \/ delete_order_line(l, q)
      BY <2>2 DEF LineStep
    <3>2. q \in Nat
      BY BoundAssumption
    <3>3. CASE delete_order_line(l, q)
      <4>1. \A k \in Rows : allocation[k] \in Int /\ (allocation'[k] = allocation[k] \/ allocation'[k] = NoRow)
        BY <3>3 DEF delete_order_line, TypeOK, NoRow
      <4> QED BY <4>1, FewerUnitsFit DEF NoRow
    <3> QED BY <3>1, <3>2, <3>3, IncreaseStockFits
  <2>3. ASSUME NEW L \in SUBSET Lines, deallocate_stock_for_orders(L) PROVE NoDeeper
    <3>1. \A k \in Rows : allocation[k] \in Int /\ (allocation'[k] = allocation[k] \/ allocation'[k] = 0)
      BY <2>3 DEF deallocate_stock_for_orders, TypeOK, NoRow
    <3> QED BY <3>1, FewerUnitsFit
  <2>4. ASSUME NEW S \in SUBSET stockRows, delete_stocks(S) PROVE NoDeeper
    <3>1. \A k \in Rows : allocation[k] \in Int /\ (allocation'[k] = allocation[k] \/ allocation'[k] = NoRow)
      BY <2>4 DEF delete_stocks, TypeOK, NoRow
    <3> QED BY <3>1, FewerUnitsFit DEF NoRow
  <2>5. ASSUME NEW w \in Sweeper, delete_allocations(w) PROVE NoDeeper
    <3>1. \A k \in Rows : allocation[k] \in Int /\ (allocation'[k] = allocation[k] \/ allocation'[k] = NoRow)
      BY <2>5 DEF delete_allocations, TypeOK, NoRow
    <3> QED BY <3>1, FewerUnitsFit DEF NoRow
  <2>6. CASE UNCHANGED allocation
    <3>1. \A k \in Rows : allocation[k] \in Int /\ allocation'[k] = allocation[k]
      BY <2>6 DEF TypeOK, NoRow
    <3> QED BY <3>1, FewerUnitsFit
  <2>7. CASE CheckoutStep
    <3>1. UNCHANGED allocation
      BY <2>7 DEF CheckoutStep, reserve_stocks, reserve_without_availability_check
    <3> QED BY <2>6, <3>1
  <2>8. ASSUME NEW w \in Sweeper, SweeperStep(w) PROVE NoDeeper
    <3>1. delete_allocations(w) \/ UNCHANGED allocation
      BY <2>8 DEF SweeperStep, delete_empty_allocations_read, update_quantity_allocated_read,
         stock_bulk_update
    <3> QED BY <2>5, <2>6, <3>1
  <2>9. ASSUME NEW k \in Rows, ReservationExpires(k) PROVE UNCHANGED allocation
    BY <2>9 DEF ReservationExpires
  <2>10. (\E s \in Stocks, q \in 0 .. MaxQuantity : update_or_create_variant_stocks(s, q))
           \/ delete_expired_reservations_task => UNCHANGED allocation
    BY DEF update_or_create_variant_stocks, delete_expired_reservations_task
  <2> QED BY <2>1, <2>2, <2>3, <2>4, <2>6, <2>7, <2>8, <2>9, <2>10 DEF WarehouseNext
<1> QED BY <1>1, TablesAreWellFormed, PTL DEF WarehouseSpec, AllocationsFit, NoDeeper

(* All that a stock can have allocated, where a line has one row on it.     *)
LEMMA AllocatedBound ==
  ASSUME NEW rows \in [Rows -> RowValue], NEW s \in Stocks, NEW most \in Nat,
         \A k \in Rows : rows[k] <= most /\ (rows[k] # NoRow => k[3] = 1)
  PROVE  StockAllocated(rows, s) \in 0 .. Cardinality(Lines) * most
<1> DEFINE U == Units(rows, RowsOfStock(s))
           T == Lines \X (1 .. most)
           f == [u \in U |-> <<u[1][1], u[2]>>]
<1>1. RowsOfStock(s) \in SUBSET Rows /\ \A k \in Rows : rows[k] \in Int
  BY RowSets DEF RowValue, NoRow
<1>2. IsFiniteSet(U) /\ Cardinality(U) \in Nat
  BY <1>1, RowsAreFinite, FS_Subset, TotalType DEF Total
<1>3. ASSUME NEW u \in U
      PROVE  \E l \in Lines : \E n \in 1 .. most : u = <<<<l, s, 1>>, n>>
  <2>1. PICK k \in RowsOfStock(s) : \E n \in 1 .. rows[k] : u = <<k, n>>
    BY UnitsMember
  <2>2. PICK n \in 1 .. rows[k] : u = <<k, n>>
    BY <2>1
  <2>3. rows[k] \in Int /\ rows[k] <= most /\ k[3] = 1
    BY <1>1, <2>2 DEF NoRow
  <2>4. n \in 1 .. most
    BY <2>3
  <2>5. k = <<k[1], s, 1>> /\ k[1] \in Lines
    BY <2>3 DEF RowsOfStock
  <2> QED BY <2>2, <2>4, <2>5
<1> HIDE DEF U
<1>4. f \in [U -> T] /\ \A u, v \in U : f[u] = f[v] => u = v
  <2>1. ASSUME NEW u \in U PROVE f[u] \in T
    BY <1>3
  <2>2. ASSUME NEW u \in U, NEW v \in U, f[u] = f[v] PROVE u = v
    <3>1. PICK l \in Lines, n \in 1 .. most : u = <<<<l, s, 1>>, n>>
      BY <1>3
    <3>2. PICK m \in Lines, i \in 1 .. most : v = <<<<m, s, 1>>, i>>
      BY <1>3
    <3>3. f[u] = <<l, n>> /\ f[v] = <<m, i>>
      BY <3>1, <3>2
    <3>4. l = m /\ n = i
      BY <2>2, <3>3
    <3> QED BY <3>1, <3>2, <3>4
  <2> QED BY <2>1, <2>2
<1>5. f \in Injection(U, T)
  BY <1>4 DEF Injection, IsInjective
<1>6. /\ IsFiniteSet(T) /\ Cardinality(T) = Cardinality(Lines) * most
      /\ Cardinality(Lines) \in Nat
  <2>1. IsFiniteSet(1 .. most) /\ Cardinality(1 .. most) = most
    BY FS_Interval
  <2>2. IsFiniteSet(T) /\ Cardinality(T) = Cardinality(Lines) * Cardinality(1 .. most)
    BY <2>1, LinesAssumption, FS_Product
  <2> QED BY <2>1, <2>2, LinesAssumption, FS_CardinalityType
<1> HIDE DEF T, f
<1>7. Cardinality(U) <= Cardinality(T)
  BY <1>5, <1>6, FS_Injection
<1>8. Cardinality(Lines) * most \in Nat
  BY <1>6
<1> QED BY <1>2, <1>6, <1>7, <1>8 DEF U, StockAllocated, Total

-----------------------------------------------------------------------------
(* What the rows of a line keep when Fill takes from them.  The units that  *)
(* are left come after the first `need` ones, in the order of the rows.     *)
LEMMA FillLeaves ==
  ASSUME NEW K, IsFiniteSet(K), NEW a, \A k \in K : a[k] \in Int, K \subseteq DOMAIN a,
         NEW e, \A k \in K : e[k] \in SUBSET K /\ k \notin e[k],
         \A j, k \in K : a[j] > 0 /\ a[k] > 0 /\ j # k =>
           (j \in e[k] /\ e[j] \subseteq e[k]) \/ (k \in e[j] /\ e[k] \subseteq e[j]),
         NEW need \in Nat,
         NEW left, \A k \in K : left[k] = a[k] - Fill(need, a, e)[k]
  PROVE  Total(left, K) <= IF need < Total(a, K) THEN Total(a, K) - need ELSE 0
<1> DEFINE before == [k \in K |-> Total(a, e[k])]
           take == [k \in K |-> Fill(need, a, e)[k]]
           all == Total(a, K)
<1>1. all \in Nat
  BY TotalType
<1>2. \A k \in K : before[k] \in Nat /\ IsFiniteSet(e[k])
  <2> SUFFICES ASSUME NEW k \in K PROVE before[k] \in Nat /\ IsFiniteSet(e[k])
    OBVIOUS
  <2>1. IsFiniteSet(e[k]) /\ \A j \in e[k] : a[j] \in Int
    BY FS_Subset
  <2>2. Total(a, e[k]) \in Nat
    BY <2>1, TotalType
  <2> QED BY <2>1, <2>2
<1>3. \A k \in K : take[k] = IF need - before[k] <= 0 \/ a[k] <= 0 THEN 0
                             ELSE IF need - before[k] < a[k] THEN need - before[k] ELSE a[k]
  BY DEF Fill
<1>4. ASSUME NEW k \in K, a[k] > 0, NEW A \in SUBSET K, e[k] \subseteq A, k \in A
      PROVE  before[k] + a[k] <= Total(a, A)
  <2>1. IsFiniteSet(A) /\ IsFiniteSet({k}) /\ IsFiniteSet(e[k])
    BY <1>2, FS_Subset, FS_Singleton
  <2>2. e[k] \cap {k} = {} /\ e[k] \cup {k} \in SUBSET A /\ \A j \in A : a[j] \in Int
    BY <1>4
  <2>3. Total(a, e[k] \cup {k}) = Total(a, e[k]) + Total(a, {k})
    BY <2>1, <2>2, TotalSplit
  <2>4. Total(a, {k}) = a[k]
    BY <1>4, TotalOne
  <2>5. Total(a, e[k] \cup {k}) <= Total(a, A)
    BY <2>1, <2>2, TotalSubset
  <2> QED BY <2>3, <2>4, <2>5
<1>5. ASSUME NEW k \in K, NEW n \in 1 .. left[k]
      PROVE  /\ a[k] > 0 /\ take[k] \in Nat /\ before[k] \in Nat /\ n \in Nat \ {0}
             /\ before[k] + take[k] >= need
             /\ before[k] + take[k] + n <= before[k] + a[k]
  <2>1. a[k] \in Int /\ before[k] \in Nat /\ left[k] = a[k] - take[k]
    BY <1>2
  <2>2. take[k] = IF need - before[k] <= 0 \/ a[k] <= 0 THEN 0
                  ELSE IF need - before[k] < a[k] THEN need - before[k] ELSE a[k]
    BY <1>3
  <2> HIDE DEF take, before
  <2>3. take[k] \in Nat
    BY <2>1, <2>2
  <2>4. n \in Nat /\ n > 0 /\ n <= a[k] - take[k]
    BY <2>1, <2>3
  <2> QED BY <2>1, <2>2, <2>3, <2>4
<1> DEFINE rank == [u \in Units(left, K) |-> before[u[1]] + take[u[1]] + u[2]]
<1> HIDE DEF before, take, all
<1>6. ASSUME NEW u \in Units(left, K)
      PROVE  u[1] \in K /\ u[2] \in 1 .. left[u[1]] /\ u = <<u[1], u[2]>>
  BY UnitsMember
<1>7. rank \in [Units(left, K) -> (need + 1) .. all]
  <2> SUFFICES ASSUME NEW u \in Units(left, K) PROVE rank[u] \in (need + 1) .. all
    OBVIOUS
  <2>1. PICK k, n : k = u[1] /\ n = u[2]
    OBVIOUS
  <2>2. k \in K /\ n \in 1 .. left[k] /\ rank[u] = before[k] + take[k] + n
    BY <1>6, <2>1
  <2>3. /\ a[k] > 0 /\ take[k] \in Nat /\ before[k] \in Nat /\ n \in Nat \ {0}
        /\ before[k] + take[k] >= need /\ before[k] + take[k] + n <= before[k] + a[k]
    BY <1>5, <2>2
  <2>4. before[k] + a[k] <= all
    BY <1>4, <2>2, <2>3 DEF all
  <2>5. a[k] \in Int
    BY <2>2
  <2> QED BY <1>1, <2>2, <2>3, <2>4, <2>5
<1>8. ASSUME NEW u \in Units(left, K), NEW v \in Units(left, K), u[1] \in e[v[1]], e[u[1]] \subseteq e[v[1]]
      PROVE  rank[u] < rank[v]
  <2>1. PICK j, m, k, n : j = u[1] /\ m = u[2] /\ k = v[1] /\ n = v[2]
    OBVIOUS
  <2>2. /\ j \in K /\ m \in 1 .. left[j] /\ rank[u] = before[j] + take[j] + m
        /\ k \in K /\ n \in 1 .. left[k] /\ rank[v] = before[k] + take[k] + n
    BY <1>6, <2>1
  <2>3. /\ a[j] > 0 /\ take[j] \in Nat /\ before[j] \in Nat /\ m \in Nat
        /\ before[j] + take[j] + m <= before[j] + a[j]
    BY <1>5, <2>2
  <2>4. take[k] \in Nat /\ before[k] \in Nat /\ n \in Nat \ {0}
    BY <1>5, <2>2
  <2>5. before[j] + a[j] <= before[k]
    <3>1. e[k] \in SUBSET K /\ j \in e[k] /\ e[j] \subseteq e[k]
      BY <1>8, <2>1, <2>2
    <3>2. before[j] + a[j] <= Total(a, e[k])
      BY <1>4, <2>2, <2>3, <3>1
    <3> QED BY <2>2, <3>2 DEF before
  <2>6. a[j] \in Int
    BY <2>2
  <2> QED BY <2>2, <2>3, <2>4, <2>5, <2>6
<1>9. ASSUME NEW u \in Units(left, K), NEW v \in Units(left, K), rank[u] = rank[v] PROVE u = v
  <2>1. /\ u[1] \in K /\ u[2] \in 1 .. left[u[1]] /\ u = <<u[1], u[2]>>
        /\ v[1] \in K /\ v[2] \in 1 .. left[v[1]] /\ v = <<v[1], v[2]>>
    BY <1>6
  <2>2. rank[u] \in Int
    BY <1>1, <1>7
  <2>3. u[1] = v[1]
    <3> SUFFICES ASSUME u[1] # v[1] PROVE FALSE
      OBVIOUS
    <3>1. a[u[1]] > 0 /\ a[v[1]] > 0
      BY <1>5, <2>1
    <3>2. \/ u[1] \in e[v[1]] /\ e[u[1]] \subseteq e[v[1]]
          \/ v[1] \in e[u[1]] /\ e[v[1]] \subseteq e[u[1]]
      BY <2>1, <3>1
    <3>3. rank[u] < rank[v] \/ rank[v] < rank[u]
      BY <1>8, <3>2
    <3> QED BY <1>9, <2>2, <3>3
  <2>4. u[2] = v[2]
    <3>1. PICK k, m, n : k = u[1] /\ m = u[2] /\ n = v[2]
      OBVIOUS
    <3>2. take[k] \in Nat /\ before[k] \in Nat /\ m \in Nat /\ n \in Nat
      BY <1>5, <2>1, <2>3, <3>1
    <3>3. before[k] + take[k] + m = before[k] + take[k] + n
      BY <1>9, <2>3, <3>1
    <3> QED BY <3>1, <3>2, <3>3
  <2> QED BY <2>1, <2>3, <2>4
<1>10. rank \in Injection(Units(left, K), (need + 1) .. all)
  BY <1>7, <1>9 DEF Injection, IsInjective
<1> HIDE DEF rank
<1>11. /\ IsFiniteSet((need + 1) .. all)
       /\ Cardinality((need + 1) .. all) = IF need + 1 > all THEN 0 ELSE all - (need + 1) + 1
  BY <1>1, FS_Interval
<1>12. Total(left, K) <= Cardinality((need + 1) .. all)
  BY <1>10, <1>11, FS_Injection DEF Total
<1>13. (IF need + 1 > all THEN 0 ELSE all - (need + 1) + 1) = IF need < all THEN all - need ELSE 0
  BY <1>1
<1> QED BY <1>11, <1>12, <1>13 DEF all

(* The rows of a line.                                                      *)
LEMMA LineRows ==
  ASSUME TypeOK, NEW l \in Lines
  PROVE  /\ RowsOfLines({l}) \in SUBSET Rows /\ IsFiniteSet(RowsOfLines({l}))
         /\ \A k \in RowsOfLines({l}) : k[1] = l
         /\ \A k \in Rows : allocation[k] \in Int
         /\ Total(allocation, RowsOfLines({l})) \in Nat
<1>1. RowsOfLines({l}) = {k \in Rows : k[1] \in {l}}
  BY RowSets
<1>2. \A k \in Rows : allocation[k] \in Int
  BY DEF TypeOK, NoRow
<1> QED BY <1>1, <1>2, RowsAreFinite, TableSums

(* deallocate_stock takes the whole quantity from the rows of the line, or  *)
(* all that they hold, and leaves the other lines alone.                    *)
LEMMA HeldDeallocated ==
  ASSUME TypeOK, NEW l \in Lines, NEW quantities, quantities[l] \in Nat,
         deallocate_stock({l}, quantities)
  PROVE  /\ Total(allocation', RowsOfLines({l}))
              <= IF quantities[l] < Total(allocation, RowsOfLines({l}))
                 THEN Total(allocation, RowsOfLines({l})) - quantities[l] ELSE 0
         /\ \A m \in Lines : m # l =>
              Total(allocation', RowsOfLines({m})) = Total(allocation, RowsOfLines({m}))
<1> DEFINE K == RowsOfLines({l})
           earlier(j) == {i \in K : /\ i[2][1] = j[2][1]
                                    /\ \/ i[2][2] < j[2][2]
                                       \/ i[2][2] = j[2][2] /\ i[3] < j[3]}
           e == [j \in Rows |-> earlier(j)]
           take == Deallocated({l}, quantities)
<1>1. K \in SUBSET Rows /\ IsFiniteSet(K) /\ (\A k \in K : k[1] = l) /\ \A k \in Rows : allocation[k] \in Int
  BY LineRows
<1>2. allocation' = [k \in Rows |-> allocation[k] - take[k]]
  BY DEF deallocate_stock
<1>3. take \in [Rows -> Nat] /\ \A k \in Rows : take[k] > 0 => k[1] \in {l}
  <2>1. allocation \in [Rows -> RowValue] /\ {l} \in SUBSET Lines /\ \A m \in {l} : quantities[m] \in Int
    BY DEF TypeOK, RowValue
  <2> QED BY <2>1, DeallocatedRows
<1>4. \A k \in K : take[k] = Fill(quantities[l], allocation, e)[k]
  <2> SUFFICES ASSUME NEW k \in K PROVE take[k] = Fill(quantities[l], allocation, e)[k]
    OBVIOUS
  <2>1. k \in Rows /\ k[1] = l
    BY <1>1
  <2> QED BY <2>1 DEF Deallocated
<1>5. \A k \in K : /\ k[2][1] \in Variants /\ k[2][2] \in Nat /\ k[3] \in Nat
                   /\ k = <<l, <<k[2][1], k[2][2]>>, k[3]>>
  <2> SUFFICES ASSUME NEW k \in K
               PROVE  /\ k[2][1] \in Variants /\ k[2][2] \in Nat /\ k[3] \in Nat
                      /\ k = <<l, <<k[2][1], k[2][2]>>, k[3]>>
    OBVIOUS
  <2>1. PICK s \in Stocks, c \in Copies : k = <<l, s, c>>
    BY DEF RowsOfLines
  <2>2. PICK v \in Variants, w \in Warehouses : s = <<v, w>>
    BY DEF Stocks
  <2> QED BY <2>1, <2>2, WarehousesAssumption, CopiesAssumption DEF Copies
<1>6. \A k \in K : e[k] = earlier(k) /\ e[k] \in SUBSET K /\ k \notin e[k]
  <2> SUFFICES ASSUME NEW k \in K
               PROVE  e[k] = earlier(k) /\ e[k] \in SUBSET K /\ k \notin e[k]
    OBVIOUS
  <2>1. k \in Rows /\ k[2][2] \in Nat /\ k[3] \in Nat
    BY <1>1, <1>5
  <2>2. e[k] = earlier(k)
    BY <2>1
  <2>3. k \notin earlier(k)
    BY <2>1
  <2>4. earlier(k) \in SUBSET K
    OBVIOUS
  <2> HIDE DEF e
  <2> QED BY <2>2, <2>3, <2>4
<1>7. \A k \in K : allocation[k] > 0 => k[2][1] = LineVariant[l]
  <2> SUFFICES ASSUME NEW k \in K, allocation[k] > 0 PROVE k[2][1] = LineVariant[l]
    OBVIOUS
  <2>1. k \in Rows /\ k[1] = l /\ allocation[k] # NoRow
    BY <1>1 DEF NoRow
  <2> QED BY <2>1 DEF TypeOK
<1>8. ASSUME NEW j \in K, NEW k \in K, allocation[j] > 0, allocation[k] > 0, j # k
      PROVE  (j \in e[k] /\ e[j] \subseteq e[k]) \/ (k \in e[j] /\ e[k] \subseteq e[j])
  <2>1. j[2][1] = k[2][1] /\ (j[2][2] # k[2][2] \/ j[3] # k[3])
    BY <1>5, <1>7, <1>8
  <2>2. j \in earlier(k) \/ k \in earlier(j)
    BY <1>5, <2>1
  <2>3. \A i \in K : i \in earlier(j) /\ j \in earlier(k) => i \in earlier(k)
    BY <1>5
  <2>4. \A i \in K : i \in earlier(k) /\ k \in earlier(j) => i \in earlier(j)
    BY <1>5
  <2> HIDE DEF e
  <2> QED BY <1>6, <2>2, <2>3, <2>4
<1> HIDE DEF e, take, K
<1>9. \A k \in K : allocation'[k] = allocation[k] - Fill(quantities[l], allocation, e)[k]
  BY <1>1, <1>2, <1>4
<1>10. DOMAIN allocation = Rows
  BY DEF TypeOK
<1>11. Total(allocation', K) <= IF quantities[l] < Total(allocation, K)
                                THEN Total(allocation, K) - quantities[l] ELSE 0
  <2>1. /\ IsFiniteSet(K) /\ (\A k \in K : allocation[k] \in Int) /\ K \subseteq DOMAIN allocation
        /\ \A k \in K : e[k] \in SUBSET K /\ k \notin e[k]
    BY <1>1, <1>6, <1>10
  <2>2. \A j, k \in K : allocation[j] > 0 /\ allocation[k] > 0 /\ j # k =>
          (j \in e[k] /\ e[j] \subseteq e[k]) \/ (k \in e[j] /\ e[k] \subseteq e[j])
    BY <1>8
  <2>3. quantities[l] \in Nat
    OBVIOUS
  <2> DEFINE left == allocation'
             need == quantities[l]
  <2>4. \A k \in K : left[k] = allocation[k] - Fill(need, allocation, e)[k]
    BY <1>9
  <2>5. need \in Nat
    BY <2>3
  <2> HIDE DEF left, need
  <2>6. Total(left, K) <= IF need < Total(allocation, K) THEN Total(allocation, K) - need ELSE 0
    BY <2>1, <2>2, <2>4, <2>5, FillLeaves
  <2> QED BY <2>6 DEF left, need
<1>12. ASSUME NEW m \in Lines, m # l
       PROVE  Total(allocation', RowsOfLines({m})) = Total(allocation, RowsOfLines({m}))
  <2>1. RowsOfLines({m}) \in SUBSET Rows /\ \A k \in RowsOfLines({m}) : k[1] = m
    BY LineRows
  <2>2. \A k \in RowsOfLines({m}) : allocation'[k] = allocation[k]
    <3> SUFFICES ASSUME NEW k \in RowsOfLines({m}) PROVE allocation'[k] = allocation[k]
      OBVIOUS
    <3>1. k \in Rows /\ k[1] = m /\ allocation[k] \in Int /\ take[k] \in Nat
      BY <1>1, <1>3, <2>1
    <3>2. take[k] = 0
      BY <1>3, <1>12, <3>1
    <3> QED BY <1>2, <3>1, <3>2
  <2> QED BY <2>2, TotalSame
<1> QED BY <1>11, <1>12 DEF K

(* A line whose rows are empty is allocated the quantity that was asked     *)
(* for, and the other lines are left alone.                                 *)
LEMMA HeldCreated ==
  ASSUME TypeOK, NEW rows \in [Rows -> RowValue], NEW l \in Lines, NEW need \in Int,
         Total(rows, RowsOfLines({l})) = 0, NEW take \in [Rows -> Nat],
         \A k \in Rows : take[k] > 0 => k[1] = l /\ rows[k] = NoRow,
         Total(take, RowsOfLines({l})) = need, allocation' = Created(rows, take)
  PROVE  /\ Total(allocation', RowsOfLines({l})) = need
         /\ \A m \in Lines : m # l =>
              Total(allocation', RowsOfLines({m})) = Total(rows, RowsOfLines({m}))
<1>1. take \in [Rows -> Nat] /\ \A k \in Rows : take[k] > 0 => k[1] = l /\ rows[k] = NoRow
  OBVIOUS
<1>2. \A k \in Rows : allocation'[k] = IF take[k] > 0 THEN take[k] ELSE rows[k]
  BY DEF Created
<1>3. Total(allocation', RowsOfLines({l})) = Total(rows, RowsOfLines({l})) + Total(take, RowsOfLines({l}))
  <2>1. PICK K, made : K = RowsOfLines({l}) /\ made = allocation'
    OBVIOUS
  <2>2. K \in SUBSET Rows /\ IsFiniteSet(K)
    BY <2>1, LineRows
  <2>3. \A k \in Rows : /\ rows[k] \in Int /\ take[k] \in Int
                        /\ take[k] > 0 => rows[k] <= 0
    BY <1>1 DEF RowValue, NoRow
  <2>4. \A k \in K : /\ rows[k] \in Int /\ take[k] \in Int
                     /\ take[k] > 0 => rows[k] <= 0
                     /\ made[k] = IF take[k] > 0 THEN take[k] ELSE rows[k]
    BY <1>2, <2>1, <2>2, <2>3
  <2>5. Total(made, K) = Total(rows, K) + Total(take, K)
    BY <2>2, <2>4, TotalCreated
  <2> QED BY <2>1, <2>5
<1>5. ASSUME NEW m \in Lines, m # l
      PROVE  Total(allocation', RowsOfLines({m})) = Total(rows, RowsOfLines({m}))
  <2>1. RowsOfLines({m}) \in SUBSET Rows /\ \A k \in RowsOfLines({m}) : k[1] = m
    BY LineRows
  <2>2. \A k \in RowsOfLines({m}) : allocation'[k] = rows[k]
    <3> SUFFICES ASSUME NEW k \in RowsOfLines({m}) PROVE allocation'[k] = rows[k]
      OBVIOUS
    <3>1. k \in Rows /\ k[1] = m
      BY <2>1
    <3>2. ~(take[k] > 0)
      BY <1>1, <1>5, <3>1
    <3> QED BY <1>2, <3>1, <3>2
  <2> QED BY <2>2, TotalSame
<1>6. Total(allocation', RowsOfLines({l})) = need
  BY <1>3
<1> QED BY <1>5, <1>6

(* The other lines hold what they held.                                     *)
OthersHold(l) ==
  \A m \in Lines : m # l =>
    Total(allocation', RowsOfLines({m})) = Total(allocation, RowsOfLines({m}))

(* allocate_stocks gives a line that holds nothing what was asked for.      *)
LEMMA HeldAllocated ==
  ASSUME TypeOK, NEW l \in Lines, NEW need \in [{l} -> Int], NEW check_reservations \in BOOLEAN,
         Total(allocation, RowsOfLines({l})) = 0, allocate_stocks({l}, need, check_reservations)
  PROVE  Total(allocation', RowsOfLines({l})) = need[l] /\ OthersHold(l)
<1> DEFINE L == {l}
           take == create_allocations(allocation, L, need, check_reservations)
<1>1. allocation' = Created(allocation, take) /\ Total(take, RowsOfLines({l})) = need[l]
  BY DEF allocate_stocks, Satisfied
<1>2. /\ allocation \in [Rows -> RowValue] /\ L \in SUBSET Lines /\ need[l] \in Int
      /\ \A m \in L : need[m] \in Int
  BY DEF TypeOK, RowValue
<1>3. l \in L /\ \A m \in L : m = l
  OBVIOUS
<1> HIDE DEF L
<1>4. take \in [Rows -> Nat] /\ \A k \in Rows : take[k] > 0 => k[1] \in L /\ allocation[k] = NoRow
  BY <1>2, AllocationRows
<1> HIDE DEF take
<1>5. \A k \in Rows : take[k] > 0 => k[1] = l /\ allocation[k] = NoRow
  BY <1>3, <1>4
<1> QED BY <1>1, <1>2, <1>4, <1>5, HeldCreated DEF OthersHold

(* increase_allocations adds to what a line holds.                          *)
LEMMA HeldIncreased ==
  ASSUME TypeOK, NEW l \in Lines, NEW added \in [{l} -> Int], increase_allocations({l}, added)
  PROVE  /\ Total(allocation', RowsOfLines({l})) = added[l] + Total(allocation, RowsOfLines({l}))
         /\ OthersHold(l)
<1> DEFINE L == {l}
           need == [m \in L |-> added[m] + Total(allocation, RowsOfLines({m}))]
           rows == [k \in Rows |-> IF k[1] \in L THEN NoRow ELSE allocation[k]]
           take == create_allocations(rows, L, need, FALSE)
<1>1. allocation' = Created(rows, take) /\ Total(take, RowsOfLines({l})) = need[l]
  BY DEF increase_allocations, Satisfied
<1>2. Total(allocation, RowsOfLines({l})) \in Nat
  BY LineRows
<1>3. need[l] = added[l] + Total(allocation, RowsOfLines({l})) /\ need[l] \in Int /\ l \in L
  BY <1>2
<1>4. rows \in [Rows -> RowValue] /\ L \in SUBSET Lines /\ \A m \in L : m = l /\ need[m] \in Int
  BY <1>3 DEF TypeOK, RowValue
<1>5. \A k \in Rows : IF k[1] = l THEN rows[k] = NoRow ELSE rows[k] = allocation[k]
  OBVIOUS
<1> HIDE DEF L, need, rows
<1>6. take \in [Rows -> Nat] /\ \A k \in Rows : take[k] > 0 => k[1] \in L /\ rows[k] = NoRow
  BY <1>4, AllocationRows
<1>7. \A k \in Rows : take[k] > 0 => k[1] = l /\ rows[k] = NoRow
  BY <1>4, <1>6
<1>8. Total(rows, RowsOfLines({l})) = 0
  <2>1. RowsOfLines({l}) \in SUBSET Rows /\ \A k \in RowsOfLines({l}) : k[1] = l
    BY LineRows
  <2>2. ASSUME NEW k \in RowsOfLines({l}) PROVE rows[k] \in Int /\ rows[k] <= 0
    <3>1. k \in Rows /\ k[1] = l
      BY <2>1
    <3>2. rows[k] = NoRow
      BY <1>5, <3>1
    <3> QED BY <3>2 DEF NoRow
  <2> QED BY <2>2, TotalZero
<1>9. \A m \in Lines : m # l => Total(rows, RowsOfLines({m})) = Total(allocation, RowsOfLines({m}))
  <2> SUFFICES ASSUME NEW m \in Lines, m # l
               PROVE  Total(rows, RowsOfLines({m})) = Total(allocation, RowsOfLines({m}))
    OBVIOUS
  <2>1. RowsOfLines({m}) \in SUBSET Rows /\ \A k \in RowsOfLines({m}) : k[1] = m
    BY LineRows
  <2>2. \A k \in RowsOfLines({m}) : rows[k] = allocation[k]
    BY <1>5, <2>1
  <2> QED BY <2>2, TotalSame
<1> HIDE DEF take
<1>10. /\ Total(allocation', RowsOfLines({l})) = need[l]
       /\ \A m \in Lines : m # l => Total(allocation', RowsOfLines({m})) = Total(rows, RowsOfLines({m}))
  BY <1>1, <1>3, <1>4, <1>6, <1>7, <1>8, HeldCreated
<1> QED BY <1>3, <1>9, <1>10 DEF OthersHold

(* increase_stock gives a line back the units it restocks.                  *)
LEMMA HeldRestocked ==
  ASSUME TypeOK, NEW l \in Lines, NEW w \in Warehouses, NEW restocked \in Nat,
         increase_stock(l, w, restocked)
  PROVE  /\ Total(allocation', RowsOfLines({l})) = Total(allocation, RowsOfLines({l})) + restocked
         /\ OthersHold(l)
<1>1. PICK k \in Rows :
        /\ k[1] = l
        /\ \A K \in SUBSET Rows :
             Total(allocation', K) = Total(allocation, K) + (IF k \in K THEN restocked ELSE 0)
  BY IncreaseStockRow
<1>2. \A m \in Lines : /\ RowsOfLines({m}) \in SUBSET Rows
                       /\ k \in RowsOfLines({m}) <=> m = l
                       /\ Total(allocation, RowsOfLines({m})) \in Nat
  <2> SUFFICES ASSUME NEW m \in Lines
               PROVE  /\ RowsOfLines({m}) \in SUBSET Rows
                      /\ k \in RowsOfLines({m}) <=> m = l
                      /\ Total(allocation, RowsOfLines({m})) \in Nat
    OBVIOUS
  <2>1. RowsOfLines({m}) = {j \in Rows : j[1] \in {m}}
    BY RowSets
  <2> QED BY <1>1, <2>1, LineRows
<1>3. Total(allocation', RowsOfLines({l})) = Total(allocation, RowsOfLines({l})) + restocked
  BY <1>1, <1>2
<1>4. ASSUME NEW m \in Lines, m # l
      PROVE  Total(allocation', RowsOfLines({m})) = Total(allocation, RowsOfLines({m}))
  <2>1. Total(allocation', RowsOfLines({m})) = Total(allocation, RowsOfLines({m})) + 0
    BY <1>1, <1>2, <1>4
  <2> QED BY <1>2, <2>1
<1> QED BY <1>3, <1>4 DEF OthersHold

(* deallocate_stock_for_orders takes everything from a line.                *)
LEMMA HeldCleared ==
  ASSUME TypeOK, NEW l \in Lines, deallocate_stock_for_orders({l})
  PROVE  Total(allocation', RowsOfLines({l})) = 0 /\ OthersHold(l)
<1>1. \A k \in Rows : /\ allocation[k] \in Int
                      /\ k[1] = l => allocation'[k] \in Int /\ allocation'[k] <= 0
                      /\ k[1] # l => allocation'[k] = allocation[k]
  BY DEF deallocate_stock_for_orders, TypeOK, NoRow
<1>2. \A m \in Lines : RowsOfLines({m}) \in SUBSET Rows /\ \A k \in RowsOfLines({m}) : k[1] = m
  BY LineRows
<1>3. \A k \in RowsOfLines({l}) : allocation'[k] \in Int /\ allocation'[k] <= 0
  BY <1>1, <1>2
<1>4. Total(allocation', RowsOfLines({l})) = 0
  BY <1>3, TotalZero
<1>5. ASSUME NEW m \in Lines, m # l
      PROVE  Total(allocation', RowsOfLines({m})) = Total(allocation, RowsOfLines({m}))
  <2>1. \A k \in RowsOfLines({m}) : allocation'[k] = allocation[k]
    BY <1>1, <1>2, <1>5
  <2> QED BY <2>1, TotalSame
<1> QED BY <1>4, <1>5 DEF OthersHold
=============================================================================
