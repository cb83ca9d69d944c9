\* Six components in turn, the posts of a lot in two ways.
SPECIFICATION PanelSpec
CONSTANTS
  Parts = {"presets", "verification", "settings", "gate", "checklist", "posts", "cards"}
  \* RuntimeSettings
  Values = {"on", "off"}  Junk = "junk"  Default = "off"
  PanelRequests = {"r1"}  Readers = {"c1", "c2"}  _CACHE_TTL_SECONDS = 1  MaxTime = 3
  \* SellerGate
  MaxCount = 4  MaxDays = 1
  \* Checklists
  Items = {"i1", "i2"}  Moderators = {"m1", "m2"}  MaxPresses = 2
  \* Verification
  Owner = "owner"  Operators = {"operator"}  Others = {"other"}
  Accounts = {"seller"}  Chats = {"shop"}  BotRequests = {"b1"}  WebRequests = {"w1"}
  \* QueuePresets
  PageRequests = {"r1", "r2"}  Subjects = {"admin", "operator"}  Admins = {"admin"}
  Names = {"n1"}  Layouts <- MCLayouts  Releases <- MCReleases  NoPreset = NoPreset
  MaxPresets = 2  MaxRequests = 3
  \* LotPosts
  u1 = u1  u2 = u2  u3 = u3  Users = {u1, u2, u3}  Seller = u1  StartPrice = 1  BuyoutPrice = 2
  NoUser = NoUser  NoPrice = NoPrice  Offers <- MCOffers
  ChatCards = {c1, c2}  InlineCards = {i1}  Workers = {w1}
  NoCard = NoCard  NoRefresh = NoRefresh  Asked = Asked  MaxChanges = 3  MaxFailures = 1
INVARIANT PageCanBeSaved
INVARIANT VerificationAgrees
INVARIANT CacheIsFresh
INVARIANT ChecklistIsOnFile
INVARIANT CardsAreAccountedFor
INVARIANT PostsFollowTheLot
PROPERTY SavedWorkIsKept
PROPERTY MarksNeverHelp
SYMMETRY MCSymmetry
CHECK_DEADLOCK FALSE
