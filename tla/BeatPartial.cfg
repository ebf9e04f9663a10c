SPECIFICATION FairSpec
CONSTANTS
    None = None
    Topics = {raw, events}
    IdleAfter = 2
    MaxRecords = 2
    MaxFaults = 0
PROPERTIES
    NoRecordPassedOver
    QuietEndsActive
