\* One order, two concurrent coroutines, a transport that loses answers.
CONSTANTS
  Request = {r1}
  Task = {t1, t2}
  MaxRetries = 2
  Quantity = 1
  NamesOrders = TRUE
  ExchangeFaults = TRUE
  NoRequest = NoRequest
  NoKey = NoKey
  NoOrder = NoOrder
  NoName = NoName
SPECIFICATION FairSpec
INVARIANT TypeOK
PROPERTIES ImplementsLifecycle PlacementSettles CallsReturn
CHECK_DEADLOCK FALSE
