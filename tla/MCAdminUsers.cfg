\* Two accounts, two requests at once.
SPECIFICATION Spec
CONSTANTS
  usr1 = usr1
  usr2 = usr2
  req1 = req1
  req2 = req2
  Users = {usr1, usr2}
  Bootstrap = usr1
  Handlers = {req1, req2}
  Nobody = Nobody
INVARIANTS
  SomebodyActive
