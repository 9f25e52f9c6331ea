SPECIFICATION Spec
CONSTANTS
    f1 = f1
    f2 = f2
    f3 = f3
    File = {f1, f2}
    None = None
    NewLayer = NewLayer
    Setting = {1}
    Commands = {"copy", "run", "layer", "config", "tag"}
    Starts <- StartEvery
    Roots = {TRUE, FALSE}
    Faults = {"io", "flush", "cmd", "tag", "crash"}
    Distinct = TRUE
    MaxLayers = 2
SYMMETRY FileSymmetry
INVARIANTS LoadableIsComplete DiffIDsMatch
PROPERTIES ImplementsStack
