SPECIFICATION Spec
CONSTANTS
  Variants = {1}
  Warehouses = {1, 2}
  Lines = {1, 2}
  LineVariant <- OneVariant
  LineOrder <- EachItsOwn
  LineWarehouses <- SecondLineLocal
  LineCollectionPoint <- NoPoint
  AllocationStrategy = "prioritize-high-stock"
  ChannelRank <- ByNumber
  MaxCopies = 1
  Sweeper = {}
  CheckoutOrders = {}
  ReservationsEnabled = FALSE
  MaxQuantity = 1
  MaxNeed = 2
  MaxCounter = 8
  Fulfillments = {1, 2}
  Workers = {1}
  FulfillmentAutoApprove = TRUE
  AutoConfirm = FALSE
INVARIANTS OrderTypeOK  NeverFulfilledBeyondOrder HeldWithinOpen StatusShowsProgress CounterMatchesRows
PROPERTY AllocationsFit
CHECK_DEADLOCK FALSE
