SPECIFICATION BookSpec
CONSTANTS
    ADDR_WIDTH = 1
    ID_WIDTH = 2
    OrderIds <- Apart
    TARGET_LOCATE = 1
    MAX_POSITION = 1
    IMBALANCE_ALPHA = 3
    ORDER_QTY = 2
    PRICE_OFFSET = 1
    WORD32 = 16
    WORD64 = 16
    TOKEN_RESET = 1
    Locates = {1, 2}
    Prices = {0}
    Shares = {1, 2}
    Types = {"A", "D"}
    Gap = 0
    Null = Null
INVARIANT DepthIsLive
