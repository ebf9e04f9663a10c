SPECIFICATION FairSpec
CONSTANTS
    None = None
    Tables <- EveryTable
    AssetIdTables <- WithAssetId
    Deployments <- Uneven
    MaxTime = 3
    LastInput = 1
    MaxFaults = 0
PROPERTIES
    EveryRetiredRowGoes
