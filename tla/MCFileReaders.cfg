SPECIFICATION FilesSpec
CONSTANTS
    WORD16 = 64
    WORD32 = 2147483647
    WORD64 = 1073741824
    RESET_TICKS = 4
    SETTLE_TICKS = 2
    Null = Null
    Files <- MCFiles
    Tickers <- MCTickers
    MAX_LENGTH = 38
    DEFAULT_LOCATE = 1337
    real_messages = 3
    OrderIds <- MCOrderIds
    TARGET_LOCATE = 1337
    MAX_POSITION = 3
    IMBALANCE_ALPHA = 1
    ORDER_QTY = 2
    PRICE_OFFSET = 100
    PIPELINE = 25
    MESSAGE_SPACING = 100
    Stray = {0, 65}
    latency_messages = 5
    P99_NUM = 3
    P99_DEN = 4
    CpuTimes = {0, 1, 3}
    RunTimes = {1}
INVARIANTS
    ReadersAgree
    TickersAreTheFiles
    MeasurementsAgree
    StatisticsMeanWhatTheySay
    BookIsOfWholeAdds
    DepthIsOfWholeAdds
