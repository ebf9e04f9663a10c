SPECIFICATION Spec
CONSTANTS
    None = None
    Topics = {raw}
    ExchangePeriod = 1
    RestoreExchanges = 2
    SlowMax = 1
    MaxAppends = 2
    MaxFaults = 0
PROPERTIES
    AgeSevers
