\* Only the payment matters; requests, deliveries and exchange rates are fair.
SPECIFICATION FairSpec
CONSTANTS
  Workers = {w1, w2}
  Orders = {o1}
  Events <- PaymentEvents
  Replayable <- PaymentsReplayed
  Given = {"reference"}
  InvoiceIds = {1, 2}
PROPERTY PaidIsInvoiced
CHECK_DEADLOCK FALSE
