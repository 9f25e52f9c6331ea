SPECIFICATION Spec
CONSTANTS
    None = None
    Name = {"a", "b", "!"}
    Value = {"x", "y"}
    Path = {"/p", "/q", "/p q"}
    Number = {"80", "0", "http"}
    Protocol = {"tcp", "udp"}
    Empty = ""
    Version = "version"
    Illegal = {"!"}
    Known = {"a", "b"}
    Exclusive <- MCExclusive
    Relative = {"y"}
    OutOfRange <- MCOutOfRange
    BadLabels <- MCBadLabels
    Unfit <- MCUnfit
    Colons = {"y"}
    Cut <- MCCut
    Services = {"http"}
    Line <- MCLines
    Files <- MCFiles
    Starts <- MCStarts
    Avoid = {"shared path", "shared port", "one word", "malformed", "blank", "reserved"}
    MaxEdits = 3
VIEW View
CHECK_DEADLOCK FALSE
INVARIANTS TypeOK NamesUnique NamesInStep
PROPERTIES ImplementsSettings
