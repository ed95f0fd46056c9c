\* Events and messages of two tenants, posts that fail, a Flush and a Close at any time, after which it stops.
CONSTANTS
  Events <- TwoTenants
  DefaultTenant = "d"
  maxEventMapSize = 2
  maxMessageMapSize = 2
  maxPerArray = 1
  DefaultInterval = 1
  Settings <- SomeSettings
  Faults = {"refused", "lost"}
  MaxRecords = 3
  MaxTime = 1
SPECIFICATION FairSpec
INVARIANTS TypeOK CountersHonest CountedOnce MessagesInOrder
PROPERTIES EventuallyPosted
CHECK_DEADLOCK FALSE
