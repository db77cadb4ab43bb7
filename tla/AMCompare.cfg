CONSTANTS
    Payload = {6}
    Configurable = {0, 2}
    MaxActuators = 2
    MaxChanges = 1
    MaxFaults = 0
SPECIFICATION Spec
INVARIANT SetsCompareEqual
CHECK_DEADLOCK FALSE
