SPECIFICATION WireSpec
CONSTANTS
    WORD32 = 4
    TOKEN_RESET = 1
    Trades <- MCTrades
    SinkStalls = TRUE
    Null = Null
    Garbled = Garbled
INVARIANT NoTornFrame
