SPECIFICATION FairWarehouseSpec
CONSTANTS
  Variants = {1}
  Warehouses = {1, 2}
  Lines = {1, 2}
  LineVariant <- OneVariant
  LineOrder <- EachItsOwn
  LineWarehouses <- Everywhere
  LineCollectionPoint <- LineOneCollects
  AllocationStrategy = "prioritize-sorting-order"
  ChannelRank <- Reversed
  MaxCopies = 1
  Sweeper = {1}
  CheckoutOrders = {1}
  ReservationsEnabled = TRUE
  MaxQuantity = 1
  MaxCounter = 1
  MaxNeed = 1
INVARIANT TypeOK
PROPERTY QuietShopIsRepaired
CHECK_DEADLOCK FALSE
