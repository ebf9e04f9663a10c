SPECIFICATION FairSpec
CONSTANTS
    None = None
    Tables <- EveryTable
    AssetIdTables <- WithAssetId
    Deployments <- Fleets
    MaxTime = 3
    LastInput = 1
    MaxFaults = 2
PROPERTIES
    EvidenceGoesLast
    RollupsStay
    RetiredRowGoes
CHECK_DEADLOCK FALSE
