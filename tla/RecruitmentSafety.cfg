\* Two applicants for one or two seats, two requests in flight, one staff edit.
SPECIFICATION Spec
CONSTANTS
  Users = {u1, u2}
  NoUser = NoUser
  Slots = {s1, s2}
  Capacities = {1, 2}
  ResponseDays = {1}
  DEFAULT_RESPONSE_DAYS = 1
  MaxNow = 1
  MaxEdits = 1
  MaxJobFailures = 0
SYMMETRY Symmetry
INVARIANTS TypeOK SeatsWithinLimit
PROPERTIES OfferHonoured ImplementsLedger
CHECK_DEADLOCK FALSE
