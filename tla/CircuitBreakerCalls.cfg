SPECIFICATION FairBoardSpec
CONSTANTS
  Workers = {1}
  FailureMinCount = 2
  FailureThreshold = 70
  FailureMinCountRecovery = 1
  FailureThresholdRecovery = 40
  SuccessCountRecovery = 2
  CooldownSeconds = 1
  TtlSeconds = 2
  MaxEvents = 3
INVARIANT BoardTypeOK
PROPERTIES BreakerPromise HealthyAppIsUsed
