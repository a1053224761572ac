SPECIFICATION Spec
CONSTANTS
    Requests = {r1, r2}
    Clients = {c1}
    Routes = {"chat", "sse"}
    Limit <- OneChatTwoOthers
    MaxStreams = 1
    TTL = 1
    Latency = 1
    MaxClock = 3
    None = None
INVARIANTS
    TypeOK
    ChecksThrottled
    WithdrawnKeysNeedOutage
PROPERTY SlotsSpec
