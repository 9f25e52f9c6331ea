SPECIFICATION Spec
CONSTANTS
    Id <- MCId
    Man <- MCMan
    None = None
    Broken = Broken
    Truncated = Truncated
    Faults <- MostFaults
    Lists <- OneDependency
    Start <- NothingYet
    Writes <- MCWrites
    Zone = "zone"
    Resolv = "resolv"
    MachineId = "machineid"
    MaxRuns = 3
INVARIANTS TypeOK ContainerSeesDependencies CleanAfterRun NothingElseInImage FailsOnlyOnFault
PROPERTIES OwnFilesKept RunEnds
CHECK_DEADLOCK FALSE
