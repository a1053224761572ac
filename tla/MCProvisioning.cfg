SPECIFICATION ProvisioningSpec
CONSTANTS
    Orgs = {o1}
    MaxRuns = 2
    MaxOutstanding = 2
    User = john
    Other = jane
INVARIANTS
    CompleteRunProvisions
    BaseRolesReturn
    MembersKept
