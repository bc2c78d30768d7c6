\* Two ids, two employees, two requests, one administrator's request at a time.
SPECIFICATION Spec
CONSTANTS
  key1 = key1
  key2 = key2
  key3 = key3
  emp1 = emp1
  emp2 = emp2
  acc1 = acc1
  acc2 = acc2
  adm1 = adm1
  adm2 = adm2
  Keys = {key1, key2}
  Employees = {emp1, emp2}
  Accesses = {acc1, acc2}
  Admins = {adm1}
  NoKey = NoKey
  NoOne = NoOne
  MaxQuota = 1
  MaxEdits = 3
CHECK_DEADLOCK FALSE
SYMMETRY Interchangeable
INVARIANTS
  TypeOK
  OneLiveRecord
  PurgedForGood
PROPERTIES
  AcceptedOnLiveRecord
  IssuesWithinQuota
  GivenNameKept
