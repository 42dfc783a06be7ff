\* One event, its tenant named or not, every interleaving of its deliveries.
SPECIFICATION Spec
CONSTANTS
  Workers = {w1, w2, w3}
  Events = {e1}
  MaxMishaps = 2
INVARIANTS OnlyTakeoversOverlap AckedWasHandled
PROPERTIES EveryEventIsHandled ImplementsDelivery
CHECK_DEADLOCK FALSE
