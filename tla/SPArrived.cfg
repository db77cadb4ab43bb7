CONSTANTS
    Agent = agent
    Controller = controller
    Param = {flags}
    Clock <- Clocks
    MaxChanges = 2
    MaxTransit = 1
SPECIFICATION Spec
INVARIANT AckedHasArrived
CHECK_DEADLOCK FALSE
