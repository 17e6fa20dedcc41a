SPECIFICATION Spec
CONSTANTS
  None = None
  Sheet <- MCSheet
  Customers = {k1}
  Calls = {c1}
  Admins = {a1}
  Forms <- AnyForms
  Capacities <- MCCapacities
  Feeds <- MCFeeds
  MAX_REFERENCE_ATTEMPTS = 2
PROPERTY CreatedWithinOwed
CHECK_DEADLOCK FALSE
