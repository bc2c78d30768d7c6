SPECIFICATION Spec
CONSTANTS
  k1 = k1
  Keys <- OneKey
  Requests = {r1, r2, r3}
  KeyOf <- OneOwner
  Independent <- Anchored
  Fixed <- Aligned
  Lifetime = "total"
  Duration <- TwoTicks
  Limits <- LimitBoth
  Quota <- QuotaWindows
  Legacy <- NoLegacy
  OldBuckets <- LeftBehind
  MaxConcurrent = 2
  Charges <- Requested
  MaxCharge = 3
  Cap = 8
  MaxTime = 2
  MaxOutages = 2
INVARIANTS
  TypeOK
  Conservation
  NothingStranded
  AnchoredBeforeUse
  SoftQuota
PROPERTIES
  WindowKeptToItsEnd
  WindowStartsEmpty
  LateCompletionKeepsOut
  KeepsUsage
SYMMETRY Symmetric
CHECK_DEADLOCK FALSE
