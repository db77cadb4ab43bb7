CONSTANTS
    a = a
    b = b
    c = c
    manual = manual
    geo = geo
    Nodes = {a, b, c}
    Pins = {manual, geo}
    PinsOf <- MCPinsOf
    Settings <- MCWest
    Rounds = 3
    MaxOutstanding = 1
    Keepers = {b}
    Movers = {a}
    MaxMoves = 1
SPECIFICATION FairSpec
PROPERTIES CrowdMeets
CHECK_DEADLOCK FALSE
