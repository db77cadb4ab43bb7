CONSTANTS
    Left = left
    Right = right
    Long = long
    Short = short
    Courier <- Couriers
    Blob <- Blobs
    Owner <- Owners
    Total <- Totals
    LastSize <- LastSizes
    NameSize <- NameSizes
    Settings <- MCSettings
SPECIFICATION Spec
INVARIANT NothingGoesMissing
CHECK_DEADLOCK FALSE
