SPECIFICATION Spec
CONSTANTS
  None = None
  Sheet <- MCSheet
  Customers = {k1}
  Calls = {c1, c2}
  Admins = {a1, a2}
  Forms <- EchoedForms
  Capacities <- MCCapacities
  Feeds <- MCFeeds
  MAX_REFERENCE_ATTEMPTS = 2
SYMMETRY MCSymmetry
INVARIANT TypeOK
INVARIANT ReferencesHaveNoGaps
INVARIANT RefusedOnlyWhenFull
INVARIANT CartonsMirrorLines
INVARIANT AdminsHearOfRequest
PROPERTY CreatedWithinOwed
CHECK_DEADLOCK FALSE
