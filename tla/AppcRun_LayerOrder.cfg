SPECIFICATION Spec
CONSTANTS
    Id <- MCId
    Man <- MCMan
    None = None
    Broken = Broken
    Truncated = Truncated
    Faults = {}
    Lists <- TwoDependencies
    Start <- NothingYet
    Writes <- MCWrites
    Zone = "zone"
    Resolv = "resolv"
    MachineId = "machineid"
    MaxRuns = 1
INVARIANTS ContainerSeesDependencies
CHECK_DEADLOCK FALSE
