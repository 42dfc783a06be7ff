\* Requests on one task take turns and staff leave invoices alone while a
\* request runs; requests crash anywhere.
SPECIFICATION Spec
CONSTANTS
  ta = ta
  tb = tb
  Free = Free
  Tasks = {ta, tb}
  Clients = {c1}
  Workers = {w1, w2}
  Owner <- OwnedByFirst
  Opening <- Credit120
  Actuals <- Hours
  Legacy <- LegacyA
  Env = {"crash"}
  Step = 15
  Block = 60
  MaxStamp = 3
  MaxMonth = 1
  MaxInvoices = 2
  MaxLines = 2
SYMMETRY WorkersAlike
INVARIANTS OverageAccountedFor OneLinePerSettlement EmittedStaysSettled RefundMatchesCharge
PROPERTIES EmittedLinesAreFixed ImplementsPromise NeverOverdraws
