\* Two polling producers and two polling consumers on a list of one slot.
CONSTANTS
    Producers = {p1, p2}
    Consumers = {c1, c2}
    Capacity = 1
    MaxPuts = 2
    NoThread = NoThread
SPECIFICATION PollingSpec
INVARIANTS
    NoSleepOnItems
    CapacityUntilDone
PROPERTIES
    KeepsPromise
    Delivered
    ConsumersReleased
