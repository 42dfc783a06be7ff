SPECIFICATION Spec
CONSTANTS
    Users = {u1}
    MaxFailures = 3
    Env = {"disconnect", "restart", "queuefail", "dbfail"}
    MaxRestarts = 1
INVARIANTS NoGhost DegradedIsSeen
PROPERTIES Recovers
