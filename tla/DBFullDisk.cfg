CONSTANTS
    Main = main
    Data = {d1, d2}
    Others = {}
    Worker = worker
    Blank = Blank
    Torn = Torn
    NoFile = NoFile
    Nothing = Nothing
    Types = {}
    Uses = {"callback"}
    CanFail = {"fileWrite"}
    MaxEvents = 8
    MaxCrashes = 0
    MaxCycles = 1
    Habit = "save"
SPECIFICATION BookSpec
INVARIANT UneditedFileStays
CHECK_DEADLOCK FALSE
