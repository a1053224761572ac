SPECIFICATION FairSpec
CONSTANTS
    Sessions = {s1}
    Messages = {m1, m2}
    MaxThreads = 2
    MaxHistory = 2
    StoreFails = TRUE
    None = None
INVARIANTS
    TypeOK
    ForgottenStays
    TranscriptInOrder
PROPERTY ChatsEnd
