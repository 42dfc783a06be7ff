SPECIFICATION Spec
CONSTANTS
    Letters = {l1}
    Requests = {q1}
    MaxAttempts = 3
    Tries = 2
    Env = {}
    MaxRows = 1
    MaxRefusals = 4
    MaxMishaps = 0
CHECK_DEADLOCK FALSE
PROPERTIES AttemptsOnlyGrow
