\* One bid, a complaint and a fraud signal, their buttons pressed at the same time.
SPECIFICATION QueueSpec
CONSTANTS
  s = s  a = a  b = b  h1 = h1  p1 = p1
  Users = {s, a}
  Seller = s
  Handlers = {h1}
  Posts = {p1}
  StartPrice = 1
  MinStep = 1
  BuyoutPrice = NoPrice
  Multipliers = {1}
  Hour = 1
  Duration = 1
  AntiSniper = FALSE
  Window = 1
  Extend = 1
  MaxExtensions = 0
  NoUser = NoUser  NoPrice = NoPrice  NoTime = NoTime  NoCall = NoCall
  NoView = NoView  NoBid = NoBid
  SignalWindow = 1
  MaxTime = 1
  MaxBids = 2
  MaxAudit = 2
  MaxComplaints = 1
  MaxSignals = 1
INVARIANT SanctionsAreOnFile
INVARIANT SanctionsAreCarriedOut
PROPERTY DecisionsStand
CHECK_DEADLOCK FALSE
