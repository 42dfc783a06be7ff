\* One task, every interleaving and fault.
SPECIFICATION Spec
CONSTANTS
  ta = ta
  tb = tb
  Free = Free
  Tasks = {ta}
  Clients = {c1}
  Workers = {w1, w2}
  Owner <- OwnedByFirst
  Opening <- Credit30
  Actuals <- Hours
  Legacy <- LegacyA
  Env = {"overlap", "invoicing", "crash", "lostack", "stalecard"}
  Step = 15
  Block = 60
  MaxStamp = 3
  MaxMonth = 1
  MaxInvoices = 1
  MaxLines = 1
SYMMETRY WorkersAlike
INVARIANTS CacheIsLedgerSum SettlementIsLive SurplusFollowsSettlement
