\* All kinds of events of one order, two requests, any order and any interruption.
SPECIFICATION Spec
CONSTANTS
  Workers = {w1, w2}
  Orders = {o1}
  Events <- AllEvents
  Replayable <- PaymentsReplayed
  Given = {"reference"}
  InvoiceIds = {1, 2}
SYMMETRY WorkersAlike
INVARIANTS HandledIsPaid InvoicedOnce CreditedOnce RefundReachesOrder
PROPERTY LateDeclineIsIgnored
CHECK_DEADLOCK FALSE
