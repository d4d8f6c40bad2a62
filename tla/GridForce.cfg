\* Calls one at a time, with force_buy and force_sell.
SPECIFICATION Spec
CONSTANTS
  Level <- MCLevel
  Price <- MCPrice
  BuyPrice <- MCBuyPrice
  SellPrice <- MCSellPrice
  Threshold = 10
  Recovery = 5
  Modes <- MCModes
  Widen = 2
  Task = {t1}
  MaxOrders = 4
  MaxDay = 2
  Manual = TRUE
  ExchangeFaults = FALSE
INVARIANTS NoOversell
CHECK_DEADLOCK FALSE
