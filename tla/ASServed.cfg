CONSTANTS
    Main = main
    Data = {d1}
    Others = {}
    Worker = worker
    Blank = Blank
    Torn = Torn
    NoFile = NoFile
    Nothing = Nothing
    Types = {"set", "load"}
    Uses = {"callback", "wait"}
    CanFail = {}
    MaxEvents = 5
    MaxCrashes = 1
    MaxCycles = 2
SPECIFICATION Spec
INVARIANTS NoneForgotten CallbackToCome QueueServed NothingLeft JoinServed
CHECK_DEADLOCK FALSE
