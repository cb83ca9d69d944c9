\* A bid call, watcher and moderators race to close a lot and tell about it; the
\* clock and the watcher are fair, nobody else is.  Room for two rulings.
SPECIFICATION FairNoticesSpec
CONSTANTS
  s = s  a = a  b = b  h1 = h1  h2 = h2  p1 = p1
  Users = {s, a, b}
  Seller = s
  Handlers = {h1}
  Watcher = Watcher  Moderator = Moderator
  Posts = {p1}
  StartPrice = 1
  MinStep = 1
  BuyoutPrice = 4
  Multipliers = {1, 3}
  Hour = 2
  Duration = 1
  AntiSniper = TRUE
  Window = 1
  Extend = 2
  MaxExtensions = 1
  NoUser = NoUser  NoPrice = NoPrice  NoTime = NoTime  NoCall = NoCall
  MaxTime = 5
  MaxBids = 2
  MaxAudit = 2
INVARIANT AnnouncedOnce
INVARIANT WinNoticesAreTrue
INVARIANT AuditExplainsState
PROPERTY RunningLotCloses
CHECK_DEADLOCK FALSE
