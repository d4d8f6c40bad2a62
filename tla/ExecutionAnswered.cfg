\* Two orders, two concurrent coroutines, every call answered.
CONSTANTS
  Request = {r1, r2}
  Task = {t1, t2}
  MaxRetries = 1
  Quantity = 2
  NamesOrders = TRUE
  ExchangeFaults = FALSE
  NoRequest = NoRequest
  NoKey = NoKey
  NoOrder = NoOrder
  NoName = NoName
SPECIFICATION Spec
SYMMETRY Symmetry
INVARIANTS Truthful OwnResult NoForgottenOrder
CHECK_DEADLOCK FALSE
