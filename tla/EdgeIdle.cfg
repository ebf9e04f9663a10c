SPECIFICATION FairSpec
CONSTANTS
    None = None
    Topics = {raw}
    ExchangePeriod = 1
    RestoreExchanges = 2
    SlowMax = 1
    MaxAppends = 1
    MaxFaults = 1
PROPERTIES
    EveryCutShown
