SPECIFICATION Spec
CONSTANTS
    Proc = {p1, p2, p3, p4}
    Inode = {i1, i2}
    None = None
    Kinds = {"begin", "end", "edit"}
    Begun = FALSE
    Overlap = FALSE
    Faults = {"crash", "open", "write", "remove", "fill", "umount"}
    p1 = p1
    p2 = p2
    p3 = p3
    p4 = p4
    i1 = i1
    i2 = i2
SYMMETRY Symmetry
CHECK_DEADLOCK FALSE
INVARIANTS CleanBetweenCommands
PROPERTIES ImplementsSession
