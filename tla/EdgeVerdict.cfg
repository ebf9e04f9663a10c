SPECIFICATION FairSpec
CONSTANTS
    None = None
    Topics = {raw}
    ExchangePeriod = 1
    RestoreExchanges = 2
    SlowMax = 1
    MaxAppends = 2
    MaxFaults = 1
INVARIANTS
    VouchedRecently
PROPERTIES
    NoFalseAlarm
    NoLoneRestore
    CutShown
    HealShown
