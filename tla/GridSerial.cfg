\* Calls one at a time, no manual orders; fills and their callbacks at any time.
SPECIFICATION Spec
CONSTANTS
  Level <- MCLevel
  Price <- MCPrice
  BuyPrice <- MCBuyPrice
  SellPrice <- MCSellPrice
  Threshold = 10
  Recovery = 5
  Modes <- MCModes
  Widen = 2
  Task = {t1}
  MaxOrders = 4
  MaxDay = 2
  Manual = FALSE
  ExchangeFaults = FALSE
INVARIANTS NoOversell OneExposure PausedIsQuiet BreakerKnowsLow
PROPERTIES BreakerHoldsBuys ImplementsCycle
CHECK_DEADLOCK FALSE
