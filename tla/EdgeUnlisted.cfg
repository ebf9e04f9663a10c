SPECIFICATION Spec
CONSTANTS
    None = None
    Topics = {raw, events}
    ExchangePeriod = 1
    RestoreExchanges = 2
    SlowMax = 1
    MaxAppends = 1
    MaxFaults = 0
PROPERTIES
    LagIsDepth
SYMMETRY Alike
