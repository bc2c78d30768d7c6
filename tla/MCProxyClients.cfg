\* Two clients of the speech endpoint that hang up before the answer.
SPECIFICATION Spec
CONSTANTS
  r1 = r1
  r2 = r2
  r3 = r3
  r4 = r4
  k = k
  chat = chat
  main = main
  spare = spare
  acct1 = acct1
  acct2 = acct2
  Requests = {r1, r2}
  Keys = {k}
  KeyOf <- OneKey
  Protocols = {chat}
  ProtocolOf <- AllChat
  TTS = {chat}
  Attentive = {}
  Pools = {main, spare}
  Names = {acct1, acct2}
  DefaultPool <- MainEverywhere
  Layouts <- Steady
  NoPool = NoPool
  MaxConcurrentPerKey = 2
  MaxReloads = 0
  MaxEdits = 0
  MaxTime = 0
  Threshold = 2
  Cooldown = 1
SYMMETRY SameRequest
CHECK_DEADLOCK FALSE
INVARIANTS
  OnlyUpstreamFailuresTrip
