SPECIFICATION MCSpec
CONSTANTS
  None = None
  Commanders = {u1}
  n1 = n1
  n2 = n2
  SourceNames = {n1, n2}
  Builtins = {"redis-subscribe", "mqtt-subscribe", "other"}
  Files <- MCFiles
  MaxCommands = 2
  MaxMessages = 3
  MaxDrops = 1
  Clients = {s1, s2}
  Callers = {q1, q2}
  QueueCap = 1
  MaxCalls = 2
  Conns = {d1, d2}
  Admins = {a1}
  MaxMsgs = 1
  MaxPauses = 1
INVARIANTS
  ServicesTypeOK
  SourcesAgree
  DebouncedInOrder
  StopWaits
PROPERTIES
  CancelledEnds
  LastIsExecuted
  StopEnds
  ParkedIsFlushed
