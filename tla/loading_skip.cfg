SPECIFICATION Spec
CONSTANTS
  Requests = {r1}
  Officers = {o1}
  Desk = {d1}
  Calls = {c1}
  Cartons = {n1, n2}
  Notes = {}
  LegacyTargets <- DocumentedTargets
  Distributor = Distributor
  RegionalAdmins = RegionalAdmins
  None = None
PROPERTY StartedBeforeCompleted
CHECK_DEADLOCK FALSE
