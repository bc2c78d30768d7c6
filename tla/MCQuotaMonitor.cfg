\* Two accounts, eight states of the provider files, two reloads that may overlap.
SPECIFICATION Spec
CONSTANTS
  none = none
  broken = broken
  k1 = k1
  env1 = env1
  here = here
  there = there
  left = left
  usedUp = usedUp
  chat = chat
  speech = speech
  Empty = none
  Broken = broken
  Environment <- Variables
  Protocols = {chat, speech}
  SpeechProtocols = {speech}
  Types = {"chat", "tts"}
  Versions = {"sharing", "apart", "alone", "noInterval", "tooOften", "noPool", "noKey", "twice"}
  Contents <- Files
  AtStart = "sharing"
  MaxConcurrency = 1
  Interval = 1
  MaxReloads = 2
  MaxTime = 1
CHECK_DEADLOCK FALSE
INVARIANTS
  TypeOK
  SnapshotsCurrent
  AcceptedInForce
PROPERTIES
  LastSuccessKept
  PendingAsked
