SPECIFICATION Spec
CONSTANTS
  Requests = {r1}
  Officers = {o1, o2}
  Desk = {d1}
  Calls = {c1, c2}
  Cartons = {n1, n2}
  Notes = {}
  LegacyTargets <- DocumentedTargets
  Distributor = Distributor
  RegionalAdmins = RegionalAdmins
  None = None
SYMMETRY CallSymmetry
INVARIANT TypeOK
INVARIANT PendingIsUntouched
INVARIANT WorkIsAttributed
INVARIANT OutcomeIsAnnounced
PROPERTY NeverPendingAgain
PROPERTY ImplementsPromise
CHECK_DEADLOCK FALSE
