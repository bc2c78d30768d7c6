SPECIFICATION BusySpec
CONSTANTS
  Nobody = Nobody
  MaxEntries = 3
  Callers = {c1}
  QueueSize = 2
  BatchSize = 2
  MaxFailures = 1
  MaxPrunes = 1
PROPERTIES
  FlushAnswered
CHECK_DEADLOCK FALSE
