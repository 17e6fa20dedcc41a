SPECIFICATION Spec
CONSTANTS
  Requests = {r1}
  Officers = {o1}
  Desk = {d1}
  Calls = {c1, c2}
  Cartons = {n1}
  Notes = {}
  LegacyTargets <- DocumentedTargets
  Distributor = Distributor
  RegionalAdmins = RegionalAdmins
  None = None
PROPERTY NoCancelOnceLoading
CHECK_DEADLOCK FALSE
