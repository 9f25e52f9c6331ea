SPECIFICATION Spec
CONSTANTS
    f1 = f1
    f2 = f2
    f3 = f3
    File = {f1, f2}
    None = None
    NewLayer = NewLayer
    Setting = {1, 2}
    Commands = {"copy", "layer"}
    Starts <- StartEmpty
    Roots = {TRUE}
    Faults = {}
    Distinct = FALSE
    MaxLayers = 3
INVARIANTS ImageComplete
