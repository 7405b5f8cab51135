SPECIFICATION SafeSpec
CONSTANTS
  Msgs = {m1, m2, m3}
  Oversize = {m3}
  CloseCodes = {1000, 4000}
  PeerCodes = {1001}
  Subs = {s1, s2}
  Primary = s1
  WriteCap = 2
  SubCap = 1
  MaxIn = 2
  None = None
INVARIANTS
  TypeOK
  Conservation
  GracefulFlush
  NoChannelPanic
  ReportedIsFinal
