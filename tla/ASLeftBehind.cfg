CONSTANTS
    Main = main
    Data = {d1}
    Others = {other}
    Worker = worker
    Blank = Blank
    Torn = Torn
    NoFile = NoFile
    Nothing = Nothing
    Types = {"get"}
    Uses = {"wait"}
    CanFail = {}
    MaxEvents = 3
    MaxCrashes = 0
    MaxCycles = 1
SPECIFICATION FairSpec
PROPERTY WaitReturns
CHECK_DEADLOCK FALSE
