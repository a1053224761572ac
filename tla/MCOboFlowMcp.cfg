SPECIFICATION FairSpec
CONSTANTS
    Threads = {t1, t2}
    Flows = {f1}
    Requests = {r1}
    Actions = {"list", "book"}
    MaxIterations = 1
    None = None
    AgentTok = AgentTok
    UserTok = UserTok
    McpTokens = {UserTok, f1}
PROPERTIES
    ConsentSpec
    RequestsFinish
