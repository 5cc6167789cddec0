SPECIFICATION InvoiceSpec
CONSTANTS
  Desks = {d1}
  Total = 2
  DueDates = {1}
  MaxNow = 3
  MaxPayments = 2
  MaxCrashes = 1
INVARIANTS
  PaidWhenCovered
CHECK_DEADLOCK FALSE
