SPECIFICATION MCSpec
CONSTANTS
    Scenarios = {"webcall"}
    Turn = {1}
    Conversation = {1}
    Channels = {"web_call"}
    IdleAfter = 1
    CloseAfter = 1
    CacheTTL = 1
    None = None
    MaxSegments = 2
    TtsConcurrency = 1
    MaxSentences = 2
    MaxChunks = 1
INVARIANTS AnswerSpokenOnce
