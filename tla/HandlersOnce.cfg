SPECIFICATION Spec
CONSTANTS
  ha = ha
  hb = hb
  hc = hc
  m1 = m1
  m2 = m2
  Names = {ha, hb, hc}
  Msgs = {m1, m2}
  Defs <- MCDefs
  Configs <- MCConfigs
  MaxEdits = 0
  None = None
INVARIANTS
  OnceOnly
