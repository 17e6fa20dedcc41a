SPECIFICATION ProjectionSpec
CONSTANTS
  Calls = {c1, c2}
  None = None
  Regions = {"lagos", "west"}
  RegionByCode <- MCRegionByCode
  Orders = {"SO1"}
  States = {"NEW", "SHIPPED", "HOLD", "IN_PROGRESS"}
  Feeds <- MCFeeds
  MaxChanges = 3
  Processes = {"p1", "p2"}
  Jobs = {"order-status", "default-officer", "customer-projection"}
  LOCK_KEY <- MCLockKey
  Probing = {"order-status", "customer-projection"}
  Slots <- MCSlots
  Timed <- MCTimed
  MaxIngests = 2
  MaxFaults = 1
  Invoices = {1}
  Receipts = {2, 3}
  Worth = {1}
  Dates = {0, 1}
  MaxStatements = 1
  Codes = {1, 2, 3}
  Clusters = {1, 7}
  PageSizes = {2}
  Accts = {1, 2}
  StockStates <- MCStockStates
  DayWindows <- MCDayWindows
  AccountOfficers = {"o1", "o2"}
  AccountStates <- MCAccountStates
  StaffMembers = {"ada"}
  Distributors = {"shop"}
  StaffRolesSeen = {"OFFICER", "REGIONAL_ADMIN", "ADMIN"}
INVARIANT ProjectionTypes
INVARIANT StatementsAgree
INVARIANT WalkMeetsAll
INVARIANT AccountScreensAgree
PROPERTY StampMovesWithStatus
PROPERTY BacklogClears
PROPERTY HeldToTheRow
PROPERTY StatusReachesDistributor
CHECK_DEADLOCK FALSE
