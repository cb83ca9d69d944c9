\* One request at a time: even then the page's session undoes the first entry.
SPECIFICATION PresetsSpec
CONSTANTS
  PageRequests = {r1}
  Subjects = {admin, operator}
  Admins = {admin}
  Names = {n1}
  Layouts <- OneLayout
  Releases <- OneRelease
  NoPreset = NoPreset
  MaxPresets = 2
  MaxRequests = 6
PROPERTY FirstEntrySticks
CHECK_DEADLOCK FALSE
