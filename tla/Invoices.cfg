SPECIFICATION InvoiceFairSpec
CONSTANTS
  Desks = {d1, d2}
  Total = 2
  DueDates = {1}
  MaxNow = 3
  MaxPayments = 2
  MaxCrashes = 1
INVARIANTS
  InvoiceTypeOK
  ShortfallIsCrossed
  VoidMoneyIsLate
PROPERTIES
  DueIsChased
CHECK_DEADLOCK FALSE
