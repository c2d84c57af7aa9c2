SPECIFICATION Spec
CONSTANTS
  Variants = {1}
  Warehouses = {1}
  Lines = {1}
  LineVariant <- OneVariant
  LineOrder <- EachItsOwn
  LineWarehouses <- Everywhere
  LineCollectionPoint <- NoPoint
  AllocationStrategy = "prioritize-high-stock"
  ChannelRank <- ByNumber
  MaxCopies = 1
  Sweeper = {}
  CheckoutOrders = {}
  ReservationsEnabled = FALSE
  MaxQuantity = 2
  MaxNeed = 2
  MaxCounter = 8
  Fulfillments = {1, 2}
  Workers = {1}
  FulfillmentAutoApprove = FALSE
  AutoConfirm = FALSE
INVARIANTS  StatusShowsProgress CounterMatchesRows
PROPERTY WarehouseSpec
CHECK_DEADLOCK FALSE
