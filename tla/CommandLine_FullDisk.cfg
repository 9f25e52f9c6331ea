SPECIFICATION Spec
CONSTANTS
    None = None
    Torn = Torn
    Char <- MCChar
    Calls <- MCCalls
    FlagWords <- MCFlagWords
    Scripts <- SomeScripts
    Nested = {TRUE, FALSE}
    Numbers = {}
    Faults = {"flush"}
    MaxCalls = 1

PROPERTIES ModifyIsAtomic
CHECK_DEADLOCK FALSE
