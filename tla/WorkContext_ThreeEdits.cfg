SPECIFICATION Spec
CONSTANTS
    Proc = {p1, p2, p3}
    Inode = {i1, i2, i3, i4}
    None = None
    Kinds = {"edit"}
    Begun = TRUE
    Overlap = TRUE
    Faults = {}
    p1 = p1
    p2 = p2
    p3 = p3
    i1 = i1
    i2 = i2
    i3 = i3
    i4 = i4
SYMMETRY Symmetry
VIEW WithoutHistory
CHECK_DEADLOCK FALSE
INVARIANTS MutualExclusion
