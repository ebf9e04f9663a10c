SPECIFICATION FairSpec
CONSTANTS
    None = None
    Tables <- EveryTable
    AssetIdTables <- WithAssetId
    Deployments <- Overridden
    MaxTime = 3
    LastInput = 1
    MaxFaults = 0
INVARIANTS
    LoadedMeansPruned
    NoTtlNoTarget
