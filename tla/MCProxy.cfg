\* Two speech requests of one key, a reload and two edits at any time.
SPECIFICATION Spec
CONSTANTS
  r1 = r1
  r2 = r2
  r3 = r3
  r4 = r4
  k = k
  chat = chat
  main = main
  spare = spare
  acct1 = acct1
  acct2 = acct2
  Requests = {r1, r2}
  Keys = {k}
  KeyOf <- OneKey
  Protocols = {chat}
  ProtocolOf <- AllChat
  TTS = {chat}
  Attentive = {r1}
  Pools = {main, spare}
  Names = {acct1, acct2}
  DefaultPool <- MainEverywhere
  Layouts <- Either
  NoPool = NoPool
  MaxConcurrentPerKey = 1
  MaxReloads = 1
  MaxEdits = 2
  MaxTime = 0
  Threshold = 1
  Cooldown = 1
CHECK_DEADLOCK FALSE
INVARIANTS
  TypeOK
  SlotsExact
  RoutedAsConfigured
PROPERTIES
  RequestsEnd
