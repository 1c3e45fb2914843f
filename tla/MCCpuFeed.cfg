SPECIFICATION FeedSpec
CONSTANTS
    OrderIds = {o1, o2}
    Locates = {1, 2}
    Sides = {0, 1, 66}
    Prices = {0}
    Shares = {0, 1, 4}
    Types = {"A", "D", "X", "E", "F"}
    TARGET_LOCATE = 1
    MAX_POSITION = 3
    IMBALANCE_ALPHA = 1
    ORDER_QTY = 2
    PRICE_OFFSET = 1
    WORD32 = 64
    WORD64 = 1024
    DEPTH_BOUND = 8
    Null = Null
INVARIANTS
    DepthIsBookPlusOverwritten
    PositionOvershoot
