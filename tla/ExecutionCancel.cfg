\* One order, one coroutine, every call answered.
CONSTANTS
  Request = {r1}
  Task = {t1}
  MaxRetries = 1
  Quantity = 1
  NamesOrders = TRUE
  ExchangeFaults = FALSE
  NoRequest = NoRequest
  NoKey = NoKey
  NoOrder = NoOrder
  NoName = NoName
SPECIFICATION FairSpec
PROPERTY CancelSettles
CHECK_DEADLOCK FALSE
