CONSTANTS
    Main = main
    Data = {d1, d2}
    Others = {other}
    Worker = worker
    Blank = Blank
    Torn = Torn
    NoFile = NoFile
    Nothing = Nothing
    Types <- AllTypes
    Uses = {}
    CanFail = {"fileRead", "fileWrite"}
    MaxEvents = 4
    MaxCrashes = 1
    MaxCycles = 1
SPECIFICATION Spec
INVARIANT EqualMeansSame
SYMMETRY DataSymmetry
CHECK_DEADLOCK FALSE
