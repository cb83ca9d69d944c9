\* A buyout commits between the opening of a card and its freeze.
SPECIFICATION QueueSpec
CONSTANTS
  s = s  a = a  b = b  h1 = h1  p1 = p1
  Users = {s, a, b}
  Seller = s
  Handlers = {h1}
  Posts = {p1}
  StartPrice = 1
  MinStep = 1
  BuyoutPrice = 3
  Multipliers = {1}
  Hour = 1
  Duration = 1
  AntiSniper = FALSE
  Window = 1
  Extend = 1
  MaxExtensions = 0
  NoUser = NoUser  NoPrice = NoPrice  NoTime = NoTime  NoCall = NoCall
  NoView = NoView  NoBid = NoBid
  SignalWindow = 1
  MaxTime = 1
  MaxBids = 1
  MaxAudit = 1
  MaxComplaints = 1
  MaxSignals = 0
SYMMETRY MCBidders
PROPERTIES
  FreezesOnlyRunningLot
CHECK_DEADLOCK FALSE
