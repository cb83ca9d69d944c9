SPECIFICATION Spec
CONSTANTS
  u1 = u1
  Users = {u1}
  Requests = {r1, r2}
  Appeals = {}
  Items = {f1, f2}
  Moderators = {m1}
  Handlers = {h1, h2}
  NoOne = NoOne
  NoTime = NoTime
  NoCall = NoCall
  OpenSla = 1
  ReviewSla = 1
  BatchSize = 1
  MaxTime = 4
  MaxLog = 1
  Owner <- MCOwner
  Reward = 3
  Adjustments <- MCAdjustments
  MaxAdjust = 1
  Enabled <- MCEnabled
  Cost <- MCCost
  KindDaily <- MCKindDaily
  KindCooldown <- MCKindCooldown
  Cooldown = 1
  DailyLimit = 2
  WeeklyLimit = 0
  DailyCap = 5
  WeeklyCap = 7
  MonthlyCap = 0
  MinBalance = 1
  MinEarned = 4
  MinAge = 0
  Day = 3
  Week = 6
  Month = 12
INVARIANT BoostLimitsHold
INVARIANT BoostIsPaidFor
PROPERTY BoostLeavesMinimum
SYMMETRY MCSymmetry
CHECK_DEADLOCK FALSE
