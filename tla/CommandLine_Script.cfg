SPECIFICATION Spec
CONSTANTS
    None = None
    Torn = Torn
    Char <- MCChar
    Calls <- MCCalls
    FlagWords <- MCFlagWords
    Scripts <- WholeBuild
    Nested = {FALSE}
    Numbers = {}
    Faults = {}
    MaxCalls = 4
INVARIANTS ScriptWorks

CHECK_DEADLOCK FALSE
