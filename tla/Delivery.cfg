\* Two notices at a time, two presses in the settings, and every fault.
SPECIFICATION DeliverySpec
CONSTANTS
  Workers = {w1, w2}
  Events = {"outbid", "points"}
  DebounceTtl = 2
  DigestWindow = 3
  DeferTtl = 3
  SnoozeFor = 1
  Day = 4
  QuietHours <- MCQuietHours
  DefaultHours <- MCDefaultHours
  Offsets = {0, 1}
  Faults = TRUE
  MaxTime = 3
  MaxNotices = 3
  MaxPresses = 2
INVARIANT DeferredIsToldOnce
INVARIANT SilenceIsBounded
INVARIANT NoticesAddUp
INVARIANT PresetsMeanWhatTheySay
SYMMETRY MCSymmetry
CHECK_DEADLOCK FALSE
