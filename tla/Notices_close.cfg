\* A raise that reaches the buyout price.
SPECIFICATION NoticesSpec
CONSTANTS
  s = s  a = a  b = b  h1 = h1  h2 = h2  p1 = p1
  Users = {s, a, b}
  Seller = s
  Handlers = {h1}
  Watcher = Watcher  Moderator = Moderator
  Posts = {p1}
  StartPrice = 1
  MinStep = 1
  BuyoutPrice = 3
  Multipliers = {1, 3}
  Hour = 1
  Duration = 1
  AntiSniper = FALSE
  Window = 1
  Extend = 1
  MaxExtensions = 0
  NoUser = NoUser  NoPrice = NoPrice  NoTime = NoTime  NoCall = NoCall
  MaxTime = 1
  MaxBids = 2
  MaxAudit = 1
SYMMETRY MCBidders
INVARIANTS
  CloseIsAnnounced
CHECK_DEADLOCK FALSE
