SPECIFICATION FairSpec
CONSTANTS
  Desks = {d1, d2}
  TrialDays = 1
  Dates = {2, 3}
  MaxNow = 3
  MaxPeriods = 3
  MaxActs = 2
  MaxCrashes = 1
INVARIANTS
  TypeOK
  NoticesOnce
PROPERTIES
  OverlapsOnlyUnseen
  EndIsNoticed
CHECK_DEADLOCK FALSE
