\* Outbids only, with nothing muted, nothing failing, and one at a time.
SPECIFICATION DeliverySpec
CONSTANTS
  Workers = {w1}
  Events = {"outbid"}
  DebounceTtl = 1
  DigestWindow = 2
  DeferTtl = 3
  SnoozeFor = 1
  Day = 4
  QuietHours <- MCAlwaysAwake
  DefaultHours <- MCAwake
  Offsets = {0}
  Faults = FALSE
  MaxTime = 5
  MaxNotices = 10
  MaxPresses = 0
PROPERTY BusyWindowsAreDigested
CHECK_DEADLOCK FALSE
