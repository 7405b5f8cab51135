SPECIFICATION SSESpec
CHECK_DEADLOCK FALSE
CONSTANTS
  None = None
  Consumers = {c1}
  Producers = {p1}
  Sizes = {3}
  ChanCap = 2
  MaxEvents = 3
  MaxConfigs = 1
PROPERTIES
  ReplayEnds
