\* Two requests at a time of an admin and an operator, and a deployment that changes the columns.
SPECIFICATION PresetsSpec
CONSTANTS
  PageRequests = {r1, r2}
  Subjects = {admin, operator}
  Admins = {admin}
  Names = {n1}
  Layouts <- MCLayouts
  Releases <- MCReleases
  NoPreset = NoPreset
  MaxPresets = 2
  MaxRequests = 3
INVARIANT PresetsTypeOK
INVARIANT PageCanBeSaved
INVARIANT TelemetryIsTrue
PROPERTY SavedWorkIsKept
SYMMETRY MCSymmetry
CHECK_DEADLOCK FALSE
