\* The smallest instance in which a checked save meets a decision: two applicants, two requests in flight.
SPECIFICATION Spec
CONSTANTS
  Users = {u1, u2}
  NoUser = NoUser
  Slots = {s1, s2}
  Capacities = {1}
  ResponseDays = {1}
  DEFAULT_RESPONSE_DAYS = 1
  MaxNow = 1
  MaxEdits = 0
  MaxJobFailures = 0
PROPERTY DecisionStands
CHECK_DEADLOCK FALSE
