CONSTANTS
    Main = main
    Data = {d1, d2}
    Others = {}
    Worker = worker
    Blank = Blank
    Torn = Torn
    NoFile = NoFile
    Nothing = Nothing
    Types = {}
    Uses = {"callback"}
    CanFail = {"loadBackend", "fileRead", "fileWrite"}
    MaxEvents = 8
    MaxCrashes = 1
    MaxCycles = 1
    Habit = "save"
SPECIFICATION FairBookSpec
INVARIANTS EditsSurvive StartKeepsFile
PROPERTIES StartsUp ShutsDown
CHECK_DEADLOCK FALSE
