SPECIFICATION Spec
CONSTANTS
    Letters = {l1}
    Requests = {q1}
    MaxAttempts = 3
    Tries = 2
    Env = {"restart", "unheard"}
    MaxRows = 3
    MaxRefusals = 2
    MaxMishaps = 1
CHECK_DEADLOCK FALSE
INVARIANTS NothingVanishes
PROPERTIES CompletedIsFinal EveryLetterIsSettled
