SPECIFICATION Spec
CONSTANTS
  Customers = {k1}
  Ids = {k1, x1}
  Parkable = {k1}
  Officers = {o1, o2}
  DefaultOfficer = o1
  Admins = {a1, a2}
  Calls = {c1, c2}
  None = None
SYMMETRY MCSymmetry
INVARIANT TypeOK
INVARIANT InStepUnlessRaced
INVARIANT HolderIsTold
PROPERTY SecondariesStay
PROPERTY ManualAssignmentStands
PROPERTY RetirementIsStampedOnce
CHECK_DEADLOCK FALSE
