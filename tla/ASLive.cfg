CONSTANTS
    Main = main
    Data = {d1}
    Others = {}
    Worker = worker
    Blank = Blank
    Torn = Torn
    NoFile = NoFile
    Nothing = Nothing
    Types = {"set", "load"}
    Uses = {"callback", "wait"}
    CanFail = {}
    MaxEvents = 4
    MaxCrashes = 0
    MaxCycles = 1
SPECIFICATION FairSpec
INVARIANT OrderlyShutdown
PROPERTIES CallbackCalled WaitReturns DeactivateReturns
CHECK_DEADLOCK FALSE
