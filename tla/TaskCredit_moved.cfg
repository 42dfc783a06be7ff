\* One request at a time, stale cards, a task that moves between two clients,
\* two months. A request waits forever at a bound, so deadlock is not checked.
SPECIFICATION Spec
CONSTANTS
  ta = ta
  tb = tb
  Free = Free
  Tasks = {ta}
  Clients = {c1, c2}
  Workers = {w1}
  Owner <- OwnedByFirst
  Opening <- Credit30
  Actuals <- Hours
  Legacy <- LegacyA
  Env = {"move", "stalecard"}
  Step = 15
  Block = 60
  MaxStamp = 4
  MaxMonth = 2
  MaxInvoices = 2
  MaxLines = 3
INVARIANTS OverageAccountedFor OneLinePerSettlement SurplusFollowsSettlement
CHECK_DEADLOCK FALSE
