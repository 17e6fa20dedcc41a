SPECIFICATION ServiceSpec
CONSTANTS
  Calls = {c1, c2}
  None = None
  Accounts = {s1}
  StaffAccounts = {s1}
  MaxTokens = 3
  Users = {u1}
  Secrets = {p1, p2}
  PasswordMax = 3
  CodeMax = 2
  MaxCodes = 2
  Distributors = {k1}
  Recipients = {k1}
  Regions = {"lagos", "west"}
  RegionByCode <- MCRegionByCode
  RegionOf <- MCRegionOf
  CreditRows <- MCCreditRows
  Days = {1, 2}
  Amounts = {1}
  MaxPayments = 2
  MaxNotices = 1
  Officers = {o1, o2}
  Admins = {}
  Outsiders = {r1}
  Me = Me
  MaxMessages = 2
  Teams <- MCTeams
  Statuses = {"OPEN", "RESOLVED"}
  MaxHappenings = 2
  Customers = {b1}
  Staff = {b2}
  Devices = {d1}
  MaxRows = 1
  MaxVerdicts = 1
  Emails = {"lower", "mixed"}
  LowerCase <- MCLowerCase
  Phones = {f1, f2}
  Roles = {"ADMIN", "OFFICER", "WAREHOUSE_OFFICER"}
  ManagedRoles = {"ADMIN", "OFFICER"}
  FieldRoles = {"OFFICER"}
  MaxStaff = 2
  Texts = {t1}
  MaxFlyers = 2
  Callers = {"ip"}
  Limit = 1
  Window = 3
  SweepEvery = 1
  MaxTime = 5
SYMMETRY MCSymmetry
INVARIANT ServiceTypes
INVARIANT NoSessionAfterRetirement
INVARIANT SignInsRotate
INVARIANT LockAtTheLimit
INVARIANT CodeIsSpent
INVARIANT AllowanceIsInTheBalance
INVARIANT OneHearer
INVARIANT ReadMeansShown
INVARIANT TheTeamHears
INVARIANT RegisteredIsReached
INVARIANT ManagedAccountsAreOurs
INVARIANT FlyersAsAsked
INVARIANT FormIsLimited
CHECK_DEADLOCK FALSE
