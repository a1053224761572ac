SPECIFICATION FairSpec
CONSTANTS
    Sessions = {s1, s2}
    MaxAgents = 2
    MaxLate = 1
    None = None
INVARIANTS
    ToldIsSo
    OneConfig
PROPERTY OperationsEnd
