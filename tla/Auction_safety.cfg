\* A lot with a buyout, two bidders and two bid calls in flight.
SPECIFICATION Spec
CONSTANTS
  s = s  a = a  b = b  h1 = h1  h2 = h2  p1 = p1
  Users = {s, a, b}
  Seller = s
  Handlers = {h1, h2}
  Posts = {p1}
  StartPrice = 1
  MinStep = 1
  BuyoutPrice = 3
  Multipliers = {1}
  Hour = 2
  Duration = 1
  AntiSniper = TRUE
  Window = 1
  Extend = 2
  MaxExtensions = 1
  NoUser = NoUser  NoPrice = NoPrice  NoTime = NoTime  NoCall = NoCall
  MaxTime = 4
  MaxBids = 3
  MaxAudit = 2
SYMMETRY MCBidders
INVARIANT TypeOK
INVARIANT HighestLiveBidderWins
INVARIANT BidsClimbBelowBuyout
INVARIANT EndIsAccountedFor
PROPERTY ClosedIsFinal
PROPERTY ImplementsEnglishAuction
CHECK_DEADLOCK FALSE
