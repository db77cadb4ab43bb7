CONSTANTS
    Main = main
    Data = {d1}
    Others = {}
    Worker = worker
    Blank = Blank
    Torn = Torn
    NoFile = NoFile
    Nothing = Nothing
    Types = {"set"}
    Uses = {}
    CanFail = {}
    MaxEvents = 3
    MaxCrashes = 0
    MaxCycles = 2
SPECIFICATION FairSpec
PROPERTIES RequestServed
CHECK_DEADLOCK FALSE
