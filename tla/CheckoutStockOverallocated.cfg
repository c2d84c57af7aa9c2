SPECIFICATION Spec
CONSTANTS
  Variants = {1}
  Warehouses = {1, 2}
  Lines = {1, 2}
  LineVariant <- OneVariant
  LineOrder <- EachItsOwn
  LineWarehouses <- Everywhere
  LineCollectionPoint <- NoPoint
  AllocationStrategy = "prioritize-high-stock"
  ChannelRank <- ByNumber
  MaxCopies = 2
  Sweeper = {}
  CheckoutOrders = {1, 2}
  ReservationsEnabled = FALSE
  MaxQuantity = 1
  MaxNeed = 1
  MaxCounter = 8
  Workers = {1}
PROPERTY AllocationsFit
CHECK_DEADLOCK FALSE
