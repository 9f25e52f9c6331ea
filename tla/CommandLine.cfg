SPECIFICATION Spec
CONSTANTS
    None = None
    Torn = Torn
    Char <- MCChar
    Calls <- MCCalls
    FlagWords <- MCFlagWords
    Scripts <- SomeScripts
    Nested = {TRUE, FALSE}
    Numbers = {2}
    Faults <- AllButFlush
    MaxCalls = 3
INVARIANTS TypeOK HistoryTellsTheBuild SuccessIsInTheFile UserBuildUntouched NothingLeft ScriptArgsArrive ChrootArgsArrive
PROPERTIES ModifyIsAtomic
CHECK_DEADLOCK FALSE
