\* A bid read its clock before the end, the watcher scanned after it.
SPECIFICATION Spec
CONSTANTS
  s = s  a = a  b = b  h1 = h1  h2 = h2  p1 = p1
  Users = {s, a, b}
  Seller = s
  Handlers = {h1}
  Posts = {p1}
  StartPrice = 1
  MinStep = 1
  BuyoutPrice = NoPrice
  Multipliers = {1, 3}
  Hour = 2
  Duration = 1
  AntiSniper = TRUE
  Window = 1
  Extend = 2
  MaxExtensions = 1
  NoUser = NoUser  NoPrice = NoPrice  NoTime = NoTime  NoCall = NoCall
  MaxTime = 4
  MaxBids = 2
  MaxAudit = 1
PROPERTIES
  TimerRespectsEnd
CHECK_DEADLOCK FALSE
