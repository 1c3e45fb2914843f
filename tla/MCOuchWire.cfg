SPECIFICATION WireSpec
CONSTANTS
    WORD32 = 4
    TOKEN_RESET = 1
    Trades <- MCTrades
    SinkStalls = FALSE
    Null = Null
    Garbled = Garbled
INVARIANT FrameInProgress
PROPERTIES
    TokensConsecutive
    ImplementsChannel
