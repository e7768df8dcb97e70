CONSTANTS
  Tmr = {p, a, b}
  Timeout <- MCTimeout
  Order <- MCOrder
  Periodic = {p}
  PeriodicList = 4
  None = None
  PerMs = 2
  EpWait = 3
  MaxLate = 2
  Anchor = {h1, h2}
  Node = {n1, n2, n3, n4}
  Game = FALSE
  MaxServed = 2
  MaxErrors = 2
  MaxSend = 3
  MaxConn = 3
  Fd = {0, 1, 2, 3}
  AcceptCnt = 2
  Room = 3
  MaxArrivals = 4
SPECIFICATION AllSpec
INVARIANTS SleepsRight PendingIsWatched NothingKept PacketsWhole LostToInterruptions
PROPERTIES ImplementsLists TimersServed LostOnlyWithSocket PendingSettles ListenerReturns
CHECK_DEADLOCK FALSE
