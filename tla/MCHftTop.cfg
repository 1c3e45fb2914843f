SPECIFICATION Spec
CONSTANTS
    ADDR_WIDTH = 1
    ID_WIDTH = 2
    OrderIds <- MCOrderIds
    TARGET_LOCATE = 1
    MAX_POSITION = 7
    IMBALANCE_ALPHA = 1
    ORDER_QTY = 2
    PRICE_OFFSET = 1
    WORD32 = 32
    WORD64 = 4
    TOKEN_RESET = 28
    Locates = {1, 2}
    Prices = {0}
    Shares = {1}
    Types = {"A", "D"}
    Null = Null
INVARIANTS
    TypeOK
    RiskLimit
    OrdersAreCharged
PROPERTIES
    TokensIncrease
    RunsDry
