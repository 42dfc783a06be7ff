SPECIFICATION Spec
CONSTANTS
    Step = 1
    Block = 2
    Workers = {w1}
    Invoices = {i1}
    Tasks = {t1}
    Worth <- MCWorth
    Actuals = {1, 3}
    Adjustments <- MCMinuses
    Corrections <- MCCorrections
    Terms = {1, 2}
    FirstTerm = 1
    Env = {}
    LastRuleDay = 1
    MaxDay = 3
    MaxRows = 5
CHECK_DEADLOCK FALSE
INVARIANTS TypeOK BatchesAreBalance FirstBatchGivesOnce ReopenIsExact NothingEscapesItsTerm
PROPERTIES ExpiryNeverOverdraws JobIsIdempotent DueMinutesExpire
