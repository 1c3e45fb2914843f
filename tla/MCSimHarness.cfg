SPECIFICATION HarnessSpec
CONSTANTS
    ADDR_WIDTH = 1
    ID_WIDTH = 2
    OrderIds <- MCOrderIds
    TARGET_LOCATE = 1
    MAX_POSITION = 16
    IMBALANCE_ALPHA = 3
    ORDER_QTY = 1
    PRICE_OFFSET = 1
    WORD32 = 128
    WORD64 = 64
    TOKEN_RESET = 5
    Locates = {0, 1, 2}
    Prices = {0, 10, 20, 30, 40, 50, 60}
    Shares = {0, 1, 5}
    Types = {"none", "A", "D", "X", "E"}
    Null = Null
    TestMessages <- MCTestMessages
    MESSAGE_COUNT = 4
    RESET_TICKS = 5
    POLLS = 100
    SPACING = 10
    WORD_TIME = 65536
INVARIANTS
    RestLatencyIsPipeline
    GivesUpOnNothing
    OneFrameOneMeasurement
    UnderflowStandsOut
PROPERTY Ends
\* The program ends; Ends says where.
CHECK_DEADLOCK FALSE
