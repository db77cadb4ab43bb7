CONSTANTS
    Agent = agent
    Controller = controller
    Param = {flags}
    Clock <- Clocks
    MaxChanges = 2
    MaxTransit = 1
SPECIFICATION FairSpec
INVARIANTS RareChangesArrive SilentEndSendsNothing
PROPERTY ComesToRest
CHECK_DEADLOCK FALSE
