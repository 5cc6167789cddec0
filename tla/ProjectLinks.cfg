SPECIFICATION Spec
CONSTANTS
  Users = {u1}
  Staff = Staff
  Projects = {a, b}
  Programs = {p, auto}
  AutoApprove = {auto}
  Multiple = {}
  OrgMembers = {}
  None = None
  Slots = {s1, s2}
  MaxRequests = 2
SYMMETRY Symmetry
INVARIANTS
  TypeOK
  RetainedNotDeleted
  RemovalIsOnRecord
PROPERTIES
  DecidedOnce
CHECK_DEADLOCK FALSE
