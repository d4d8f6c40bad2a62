\* One order whose answers get lost.
CONSTANTS
  Request = {r1}
  Task = {t1}
  MaxRetries = 2
  Quantity = 1
  NamesOrders = TRUE
  ExchangeFaults = TRUE
  NoRequest = NoRequest
  NoKey = NoKey
  NoOrder = NoOrder
  NoName = NoName
SPECIFICATION Spec
INVARIANT OneOrderPerRequest
CHECK_DEADLOCK FALSE
