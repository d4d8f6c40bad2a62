\* Two calls at a time, manual orders, lost answers and failing cancels.
SPECIFICATION Spec
CONSTANTS
  Level <- MCOne
  Price = {9, 10}
  BuyPrice <- MCOneBuyPrice
  SellPrice <- MCOneSellPrice
  Threshold = 10
  Recovery = 5
  Modes = {"trailing_buy"}
  Widen = 2
  Task = {t1, t2}
  MaxOrders = 3
  MaxDay = 2
  Manual = TRUE
  ExchangeFaults = TRUE
SYMMETRY Symmetry
INVARIANTS NamesOwnOrders
CHECK_DEADLOCK FALSE
