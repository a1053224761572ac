SPECIFICATION FairSpec
CONSTANTS
    Workers = {w1, w2, w3}
    AutoCreate = {FALSE}
    MaxFailures = 1
    None = None
PROPERTY RequestsReturn
CHECK_DEADLOCK FALSE
