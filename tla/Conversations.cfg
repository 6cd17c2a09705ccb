SPECIFICATION MCSpec
CONSTANTS
    Scenarios = {"sweep", "overlap", "pipeline", "webcall"}
    Turn = {1, 2}
    Conversation = {1, 2}
    Channels = {"web_chat", "web_call", "voice"}
    IdleAfter = 1
    CloseAfter = 1
    CacheTTL = 1
    None = None
    MaxSegments = 4
    TtsConcurrency = 2
    MaxSentences = 4
    MaxChunks = 2
INVARIANTS
    TypesOK RowsPerSession NoOrphanedSynthesis AudioEndFollows
PROPERTIES
    ClosedAfterWarning CachedSwitchObeyed SweptIdleIsClosed
    PipelineSpeaksInOrder CallSpeaksInOrder SpeechEnds
