SPECIFICATION FairSpec
CONSTANTS
    Workers = {w1, w2, w3}
    AutoCreate = {TRUE, FALSE}
    MaxFailures = 1
    None = None
INVARIANTS
    Singletons
    NoSelfWait
PROPERTY CreatedRequestsReturn
CHECK_DEADLOCK FALSE
