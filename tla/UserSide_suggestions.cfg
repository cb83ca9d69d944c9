\* A suggested post that no chat owner's event keeps back.
SPECIFICATION SideSpec
CONSTANTS
  x1 = x1  x2 = x2
  Parts = {"desk"}
  \* LotWizard
  Chats <- MCChats  Topics = {1}  StrictRouting = TRUE  Prices = {1, 2}  MaxPhotos = 1
  \* Delivery
  Workers = {x1, x2}  Events = {"outbid", "points"}
  DebounceTtl = 2  DigestWindow = 3  DeferTtl = 3  SnoozeFor = 1  Day = 4
  QuietHours <- MCQuietHours  DefaultHours <- MCDefaultHours  Offsets = {0, 1}
  Faults = TRUE  MaxTime = 3  MaxNotices = 3  MaxPresses = 1
  \* PrivateTopics
  Handlers = {x1, x2}  Nowhere = Nowhere  MaxTopics = 4  MaxRoleChanges = 3  MaxFailures = 1
  \* ChannelDesk
  Posts = {"p1", "p2"}  OwnerEvents = {"e1", "e2"}  Moderators = {x1, x2}  MaxCrashes = 1
INVARIANT SuggestionsAreQueued
CHECK_DEADLOCK FALSE
