CONSTANTS
    Main = main
    Data = {d1, d2}
    Others = {}
    Worker = worker
    Blank = Blank
    Torn = Torn
    NoFile = NoFile
    Nothing = Nothing
    Types = {}
    Uses = {"callback"}
    CanFail = {}
    MaxEvents = 7
    MaxCrashes = 0
    MaxCycles = 1
    Habit = "synchronize"
SPECIFICATION BookSpec
INVARIANTS SynchronizeSaves
CHECK_DEADLOCK FALSE
