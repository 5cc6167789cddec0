\* An owner and three people around a plan for two, two requests in flight, four requests.
SPECIFICATION Spec
CONSTANTS
  Owner = o
  Users = {o, a, b, c}
  Limit = 2
  Slots = {s1, s2}
  MaxInvites = 1
  MaxActs = 4
SYMMETRY Symmetry
INVARIANTS OwnerStays LinkUsedOnce OverrunBounded
CHECK_DEADLOCK FALSE
