SPECIFICATION StoreSpec
CONSTANTS
    Seed <- MCSeed
    DataStart = 10
    DiskEnd = 18
    IndexRoom = 2
    ReadFaults = TRUE
    MaxLost = 0
    MaxJobs = 3
    Catalog <- MCCatalog
    FilesOf <- MCFilesOf
    Writes <- MCWrites
PROPERTY RestoredAsStored
