SPECIFICATION Spec
CONSTANTS
  Call = {c1, c2, c3}
  Process = {p, q}
  Source = {s, t}
  NoTicket = none
  Free = free
  Old = old
  MaxQuota = 2
  MaxCrashes = 1
  MaxExpiries = 1
INVARIANTS QuotaHolds OneTicketPerSource TicketShowsItsRun
SYMMETRY Requests
CHECK_DEADLOCK FALSE
