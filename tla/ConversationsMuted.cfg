SPECIFICATION MCSpec
CONSTANTS
    Scenarios = {"overlap"}
    Turn = {1, 2}
    Conversation = {1}
    Channels = {"web_chat"}
    IdleAfter = 1
    CloseAfter = 1
    CacheTTL = 1
    None = None
    MaxSegments = 2
    TtsConcurrency = 1
    MaxSentences = 2
    MaxChunks = 1
INVARIANTS MutedTurnsAreSilent
