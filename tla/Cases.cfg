\* Cases of the moderators and feedback, with the fairness of their watchers, and a lot's timeline.
SPECIFICATION CasesSpec
CONSTANTS
  Parts = {"requests", "appeals", "feedback", "trade", "timeline"}
  \* Casework
  Requests = {"r1"}  Appeals = {"a1", "a2"}  Moderators = {"m1", "m2"}
  NoOne = NoOne  NoTime = NoTime
  OpenSla = 1  ReviewSla = 2  BatchSize = 1  MaxTime = 3  MaxLog = 2
  \* Feedback
  Items = {"i1", "i2"}  Workers = {"w1", "w2"}  Reward <- MCReward
  MaxAttempts = 3  RetryBase = 1  RetryMax = 2  NoEvent = NoEvent  NoJob = NoJob
  MaxPresses = 2  MaxRestarts = 1
  \* TradeFeedback
  Authors = {"seller", "winner", "third"}  Ratings = {5}  TradeRequests = {"r1", "r2"}  MaxTradeLog = 2
  \* Timeline
  NotYet = NotYet  Filters <- MCFilters  Limits = {1, 2}  MaxRows = 3  MaxClock = 2
INVARIANT LogTellsTheCase
INVARIANT RewardFollowsVerdict
INVARIANT LinkIsSound
INVARIANT LogTellsVisibility
INVARIANT TimelineIsWhole
PROPERTY AppealsAreFollowedUp
PROPERTY ApprovedIsSettled
CHECK_DEADLOCK FALSE
