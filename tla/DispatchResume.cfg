SPECIFICATION Spec
CONSTANTS
  Conns = {c1}
  Admins = {a1}
  MaxMsgs = 1
  MaxPauses = 1
  None = None
PROPERTIES
  ResumeFlushes
