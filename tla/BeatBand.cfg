SPECIFICATION FairSpec
CONSTANTS
    None = None
    Topics = {raw, events}
    IdleAfter = 2
    MaxRecords = 3
    MaxFaults = 1
PROPERTIES
    IdleIsQuiet
    QuietNotActive
