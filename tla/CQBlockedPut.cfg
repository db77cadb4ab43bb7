\* One slot, one producer that blocks, one consumer that makes room.
CONSTANTS
    Producers = {p1}
    Consumers = {c1}
    Capacity = 1
    MaxPuts = 2
    NoThread = NoThread
SPECIFICATION PollingSpec
PROPERTIES
    BlockedPutResumes
