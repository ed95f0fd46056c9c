\* The size of the messages after posts that succeed and fail.
CONSTANTS
  Events <- TwoTenants
  DefaultTenant = "d"
  maxEventMapSize = 2
  maxMessageMapSize = 2
  maxPerArray = 1
  DefaultInterval = 1
  Settings <- SomeSettings
  Faults = {"refused", "lost"}
  MaxRecords = 3
  MaxTime = 1
SPECIFICATION FairSpec
CHECK_DEADLOCK FALSE
PROPERTIES RoomForMessages
