CONSTANTS
    a = a
    b = b
    c = c
    manual = manual
    geo = geo
    Nodes = {a, b, c}
    Pins = {manual, geo}
    PinsOf <- MCPinsOf
    Settings <- MCSettings
    Rounds = 3
    MaxOutstanding = 1
    Keepers = {b}
    Movers = {a}
    MaxMoves = 1
SPECIFICATION FairSpec
INVARIANTS NoneOutstays
PROPERTIES AddressesAdvance FellowsMeet
CHECK_DEADLOCK FALSE
