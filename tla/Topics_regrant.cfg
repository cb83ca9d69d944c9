\* One transaction at a time; a moderator is dismissed and appointed again.
SPECIFICATION TopicsSpec
CONSTANTS
  Handlers = {h1}
  Nowhere = Nowhere
  MaxTopics = 5
  MaxRoleChanges = 3
  MaxFailures = 0
INVARIANT ModeratorsHaveTheirSection
CHECK_DEADLOCK FALSE
