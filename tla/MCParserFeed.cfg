SPECIFICATION FeedSpec
CONSTANTS
    WORD16 = 512
    WORD32 = 4
    Payloads <- MCPayloads
    Null = Null
INVARIANT InStep
PROPERTY ImplementsStream
