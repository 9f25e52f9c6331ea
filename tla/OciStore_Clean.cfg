SPECIFICATION Spec
CONSTANTS
    f1 = f1
    f2 = f2
    f3 = f3
    File = {f1, f2, f3}
    None = None
    NewLayer = NewLayer
    Setting = {1, 2}
    Commands = {"copy", "run", "layer", "config", "tag"}
    Starts <- StartAny
    Roots = {TRUE, FALSE}
    Faults = {}
    Distinct = TRUE
    MaxLayers = 3
INVARIANTS TypeOK ImageComplete NoOrphans CacheFaithful CacheIsSuffix NothingMissing
PROPERTIES CopyCommitsItsFiles ImplementsStack
