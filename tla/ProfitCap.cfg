\* A price may jump from the entry to the cap with no tick in between.
SPECIFICATION Spec
CONSTANTS
  Price = {9, 10, 11, 12, 13}
  TriggerPct = 10
  TrailPct = 10
  CapPct = 30
  Task = {t1, t2}
  MaxGen = 2
  MaxOrders = 3
  ExchangeFaults = TRUE
SYMMETRY Symmetry
INVARIANT CapSells
CHECK_DEADLOCK FALSE
