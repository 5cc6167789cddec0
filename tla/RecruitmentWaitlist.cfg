\* Three applicants, so that two can wait for the seat of a third; fairness, hence no symmetry.
SPECIFICATION FairSpec
CONSTANTS
  Users = {u1, u2, u3}
  NoUser = NoUser
  Slots = {s1}
  Capacities = {0, 1}
  ResponseDays = {1}
  DEFAULT_RESPONSE_DAYS = 1
  MaxNow = 1
  MaxEdits = 0
  MaxJobFailures = 1
PROPERTIES ExpiredOfferLapses LapsedSeatPassedOn
CHECK_DEADLOCK FALSE
