SPECIFICATION Spec
CONSTANTS
  Variants = {1, 2}
  Warehouses = {1}
  Lines = {1, 2, 3}
  LineVariant <- SecondDiffers
  LineOrder <- TwoLinesThenOne
  LineWarehouses <- Everywhere
  LineCollectionPoint <- NoPoint
  AllocationStrategy = "prioritize-high-stock"
  ChannelRank <- ByNumber
  MaxCopies = 2
  Sweeper = {}
  CheckoutOrders = {1, 2}
  ReservationsEnabled = TRUE
  MaxQuantity = 1
  MaxNeed = 1
  MaxCounter = 8
  Workers = {1, 2}
INVARIANTS OneOrderPerCheckout PlacedHoldsNoReservation CounterMatchesRows
CHECK_DEADLOCK FALSE
