SPECIFICATION StoreSpec
CONSTANTS
    Seed <- MCSeed
    DataStart = 10
    DiskEnd = 15
    IndexRoom = 2
    ReadFaults = FALSE
    MaxLost = 1
    MaxJobs = 3
    Catalog <- MCCatalog
    FilesOf <- MCFilesOf
    Writes <- MCWrites
INVARIANTS
    StoreIntact
    AllOrNothing
    InstalledIsStored
PROPERTY
    SavedSurvives
