CONSTANTS
    Payload = {6}
    Configurable = {0, 2}
    MaxActuators = 3
    MaxChanges = 1
    MaxFaults = 1
SPECIFICATION FairSpec
INVARIANTS InStep OnlyLastByteLost
PROPERTY Regains
CHECK_DEADLOCK FALSE
