SPECIFICATION Spec
CONSTANTS
    Step = 1
    Block = 2
    Workers = {w1}
    Invoices = {i1}
    Tasks = {t1, t2}
    Worth <- MCMinuteWorth
    Actuals = {1}
    Adjustments = {}
    Corrections = {}
    Terms = {1}
    FirstTerm = 1
    Env = {}
    LastRuleDay = 1
    MaxDay = 3
    MaxRows = 8
CHECK_DEADLOCK FALSE
INVARIANT NothingDoneNothingOwed
