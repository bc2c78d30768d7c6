SPECIFICATION Spec
CONSTANTS
  k1 = k1
  Keys <- OneKey
  Requests = {r1, r2}
  KeyOf <- OneOwner
  Independent <- Anchored
  Fixed <- Aligned
  Lifetime = "total"
  Duration <- TwoTicks
  Limits <- LimitBoth
  Quota <- QuotaAll
  Legacy <- NoLegacy
  OldBuckets <- LeftBehind
  MaxConcurrent = 1
  Charges <- RequestedOrFree
  MaxCharge = 2
  Cap = 8
  MaxTime = 2
  MaxOutages = 2
PROPERTIES
  EventuallySaved
CHECK_DEADLOCK FALSE
