SPECIFICATION Spec
CONSTANTS
    Threads = {t1}
    Flows = {f1, f2}
    Requests = {r1, r2}
    Actions = {"list", "delete"}
    MaxIterations = 1
    None = None
    AgentTok = AgentTok
    UserTok = UserTok
    McpTokens = {}
SYMMETRY Symmetry
INVARIANTS
    DelegatedCalls
    AuthorizedByConsent
    RedeemedVerifierGone
PROPERTY ConsentSpec
