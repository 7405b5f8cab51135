SPECIFICATION StoreSpec
CONSTANTS
  Procs = {p1, p2, p3}
  Clients = {c1, c2}
  Topics = {t1}
  Msgs = {m1}
  Entries = {e1, e2}
  MaxCalls = 5
  None = None
INVARIANTS
  NoLostSubscription
