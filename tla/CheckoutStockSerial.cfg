SPECIFICATION Spec
CONSTANTS
  Variants = {1}
  Warehouses = {1}
  Lines = {1, 2}
  LineVariant <- OneVariant
  LineOrder <- EachItsOwn
  LineWarehouses <- Everywhere
  LineCollectionPoint <- NoPoint
  AllocationStrategy = "prioritize-high-stock"
  ChannelRank <- ByNumber
  MaxCopies = 2
  Sweeper = {}
  CheckoutOrders = {1, 2}
  ReservationsEnabled = TRUE
  MaxQuantity = 2
  MaxNeed = 2
  MaxCounter = 8
  Workers = {1}
INVARIANTS CheckoutTypeOK 
PROPERTIES  WarehouseSpec
CHECK_DEADLOCK FALSE
