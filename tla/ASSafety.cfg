CONSTANTS
    Main = main
    Data = {d1, d2}
    Others = {other}
    Worker = worker
    Blank = Blank
    Torn = Torn
    NoFile = NoFile
    Nothing = Nothing
    Types <- AllTypes
    Uses = {}
    CanFail <- AllFailures
    MaxEvents = 4
    MaxCrashes = 1
    MaxCycles = 1
SPECIFICATION Spec
INVARIANTS CountersHonest LoadNeverDiscards InUse IssueOrder
PROPERTY KeepsPromise
SYMMETRY DataSymmetry
CHECK_DEADLOCK FALSE
