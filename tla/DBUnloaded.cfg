CONSTANTS
    Main = main
    Data = {d1, d2}
    Others = {}
    Worker = worker
    Blank = Blank
    Torn = Torn
    NoFile = NoFile
    Nothing = Nothing
    Types = {}
    Uses = {"callback"}
    CanFail = {"loadBackend"}
    MaxEvents = 8
    MaxCrashes = 0
    MaxCycles = 1
    Habit = "save"
SPECIFICATION BookSpec
INVARIANT UnloadedEditsSurvive
CHECK_DEADLOCK FALSE
