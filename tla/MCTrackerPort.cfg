SPECIFICATION PortSpec
CONSTANTS
    ADDR_WIDTH = 1
    ID_WIDTH = 3
    OrderIds <- MCOrderIds
    Data = {d1, d2}
    ZeroData = zero
    Null = Null
INVARIANT PortInv
PROPERTY ImplementsMap
