SPECIFICATION Spec
CONSTANTS
  Nobody = Nobody
  MaxEntries = 4
  Callers = {c1}
  QueueSize = 2
  BatchSize = 2
  MaxFailures = 1
  MaxPrunes = 1
INVARIANTS
  OneFate
  StopLeavesNothing
  OkMeansWritten
PROPERTIES
  FlushAnswered
  CloseEnds
  KeepsLog
CHECK_DEADLOCK FALSE
