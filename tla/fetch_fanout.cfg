SPECIFICATION FairSpec
CONSTANTS
  jd = jd
  Providers = {jd}
  Broadcasts = {b1, b2}
  MaxGlobalConcurrency = 2
  MaxCandidates = 1
  CircuitThreshold = 20
  DecayAmount = 4
  Credit = 1
  BanDeltas = {10}
  Interval = 2
  Minute = 2
  GlobalLimit = 3
  ProviderLimit = 2
  DomainLimit = 2
  MaxNow = 2
  MaxStarts = 2
  MaxLost = 1
  None = None
INVARIANTS TypeOK SlotsShared TrippedIsLeftAlone RateKept
PROPERTIES CooldownKept EveryBroadcastReturns
CHECK_DEADLOCK FALSE
