SPECIFICATION Spec
CONSTANTS
    Requests = {q1, q2}
    Staff = {s1}
    MaxOrders = 2
    MaxMishaps = 2
CHECK_DEADLOCK FALSE
INVARIANTS CreditedOnce IssuedOnce CreditComesFirst
PROPERTIES EveryCreditIsInvoiced
