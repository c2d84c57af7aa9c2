SPECIFICATION FairSpec
CONSTANTS
  Deliveries = {d1, d2}
  MaxRetries = 1
  NotFoundRetries = 1
  PayloadRetries = 1
  StaffRetries = 1
INVARIANTS TypeOK NoDeliveryIsDropped PendingHasATask
PROPERTY PendingIsResolved
CHECK_DEADLOCK FALSE
