SPECIFICATION FairSpec
CONSTANTS
  Drivers = {"postgres", "redis"}
  Clients = {c1, c2}
  Parts = {state, nodes}
  TaskPart = state
  Jobs = {job}
  Keys = {key}
  MaxWrites = 3
  MaxCalls = 2
  MaxFailures = 1
  MaxCrashes = 1
  None = None
INVARIANTS TypeOK SavedIsWhole RedisKeepsAcked SavedWhenAlone
PROPERTIES AckedResultReused EveryCallEnds
CHECK_DEADLOCK FALSE
