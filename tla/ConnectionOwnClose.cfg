SPECIFICATION SafeSpec
CONSTANTS
  Msgs = {m1}
  Oversize = {}
  CloseCodes = {1000}
  PeerCodes = {1001}
  Subs = {s1}
  Primary = s1
  WriteCap = 1
  SubCap = 1
  MaxIn = 1
  None = None
PROPERTIES
  OwnCloseNotAbnormal
