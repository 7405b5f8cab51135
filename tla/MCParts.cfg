SPECIFICATION MCSpec
CONSTANTS
  None = None
  Conns = {d1}
  Admins = {a1}
  MaxMsgs = 4
  MaxPauses = 3
  ha = ha
  hb = hb
  v1 = v1
  v2 = v2
  Inbox = {m1, m2}
  HandlerNames = {ha, hb}
  First = ha
  Setups <- MCSetups
  Pool <- MCPool
  Absences = {{}, {"topics", "server", "kv"}}
  Responses = 2
  Rate = 2
  Burst = 1
  MaxHistory = 3
  Window = 2
  MaxTime = 2
  MaxLeaves = 1
  h1 = h1
  h2 = h2
  o1 = o1
  Hosts = {h1, h2}
  Origins = {o1, o2}
  Policies <- MCPolicies
  Fine = 2
  Hour = 2
  MaxTicks = 4
  MaxRequested = 7
  Ports = {port1, port2}
  Stoppers = {stop1}
  MaxServers = 3
  MaxDepth = 2
  Aliases = {"again", "short"}
  Scripts <- MCScripts
  MaxLines = 4
  MaxSignals = 2
  Keys = {k1}
  Readers = {r1, r2}
  MaxSets = 2
  MaxReads = 2
  Procs = {p1, p2, p3}
  Clients = {c1, c2}
  Topics = {t1, t2}
  Msgs = {m1}
  Entries = {e1, e2, e3}
  MaxCalls = 4
  Width = 8
  Retriers <- MCRetriers
  MaxFailures = 10
INVARIANTS
  PartsTypeOK
  BufferedOnce
  PauseLeaksOne
  InTurn
  WindowKept
  TurnsRemembered
  AnsweredOnce
  LimitsHold
  Stoppable
  BlocksWhole
  NothingStale
  StickyReachesAll
  StaysUnsubscribed
  AcceptedIsWhole
  WaitsGrow
