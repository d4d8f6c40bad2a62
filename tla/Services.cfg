SPECIFICATION Spec
CONSTANTS
  Focus = {"retrying", "heartbeat", "queueing", "recovering", "reconciling", "gating", "notifying", "billing", "subscribing", "referring", "screening", "analyzing", "moding", "stepping", "planning", "listing", "grouping", "linking",
    "publishing", "calling", "streaming", "sharing"}
  Job = {j1, j2}
  Pass = {p1, p2}
  MaxRetries = 2
  Part = {c1, c2}
  Venue = {v1, v2}
  Order = {o1, o2}
  Bot = {b1, b2}
  Symbol = {s1, s2}
  None = None
  Shared = TRUE
  Trader = {i1, i2}
  Coin = {k1, k2}
  Lot = {1, 2}
  Quote = {2, 4}
  MaxNotional = 6
  MaxPerCoin = 8
  MaxTotal = 10
  MaxOpen = 1
  MaxFills = 3
  NoPos = NoPos
  Channel = {h1, h2}
  Worker = {w1, w2}
  MaxSends = 2
  MaxNotes = 1
  Topic = {t1, t2}
  Request = {r1}
  MaxConns = 2
  Tries = 3
  Ticket = {1, 2}
  Feed = {s1, s2}
  Actor = {a1, a2}
  MaxSockets = 2
  MaxTries = 2
  Key = {k1}
  Consumer = {c1, c2, c3}
  MaxSubs = 3
  Invoice = {n1, n2}
  Member = {m1, m2}
  Payment = {y1, y2}
  MaxDay = 3
  MaxCharges = 2
  NeedsKey = {"stripe"}
  NoMember = NoMember
  ScreenCoin = {q1, q2}
  Tier = {70, 80}
  DayScale = 5
  MinSamples = 2
  Lookback = 5
  Series <- LongFall
  Closing = {0, 80, 90, 100}
  MaxDays = 6
  MaxPasses = 2
  MaxEvents = 1
  Visitor = {z1, z2}
  Editor = {e1, e2}
  Owner = {u1, u2}
  MaxEdits = 3
  MaxUpdates = 4
  Capital = {100, 450, 1350, 1351, 7500, 21000, 99999}
  GroupSize = {3, 5, 10}
  CustomSteps = 7
  Bound = {1, 3, 10}
  MaxGrids = 6
  Client = {g1, g2}
  Customer = {l1, l2}
  System = System
  BuiltinPreset = {"mm30", "mm50"}
  BuiltinGroup = {"Top 3", "Top 5"}
  MaxRows = 4
  MaxByHand = 3
INVARIANTS
  TasksAccounted
  ReplayedOnce
  GridAgrees
  BooksBalance
  NotifyAccounted
  SaasBooks
  ThresholdsJustified
  CacheCurrent
  SetupSound
  OneOfEach
  BusCovers
  HonestAnswer
  NoUnexplainedOrder
  StreamsServed
  OneFeedPerStream
PROPERTIES
  GateHolds
CHECK_DEADLOCK FALSE
