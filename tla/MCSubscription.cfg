SPECIFICATION FairSpec
CONSTANTS
    Sessions = {s1}
    Plans = {"basic", "enterprise"}
    MaxPolls = 2
    MaxLate = 1
    GroupNames = {"idp-manager"}
    None = None
    s1 = s1
INVARIANTS
    TypeOK
    IdpAccessWasSelected
    PlanRolesSettled
PROPERTY OperationsEnd
