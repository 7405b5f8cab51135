SPECIFICATION MCSpec
CONSTANTS
  Msgs = {m1, m2}
  Oversize = {}
  CloseCodes = {1000}
  PeerCodes = {1001}
  Subs = {s1}
  Primary = s1
  WriteCap = 1
  SubCap = 1
  MaxIn = 0
  None = None
  Sessions <- MCSessions
  MaxCount = 2
  MaxLosses = 2
  MaxRequests = 2
  PumpCap = 1
  OutCap = 1
  MaxSent <- MCSent
  Consumers = {c1, c2}
  Producers = {p1}
  Sizes = {2}
  ChanCap = 2
  MaxEvents = 3
  MaxConfigs = 1
INVARIANTS
  LinksTypeOK
  RelayedInOrder
  ReplayThenLive
PROPERTIES
  CloseReleasesAll
  LinkSpec
  UserIsServed
  EverythingEnds
