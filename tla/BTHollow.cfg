CONSTANTS
    Left = left
    Right = right
    Long = long
    Short = short
    Courier <- Couriers
    Blob <- Blobs
    Owner <- Owners
    Total <- Totals
    LastSize <- LastSizes
    NameSize <- NameSizes
    Settings <- MCSettings
SPECIFICATION Spec
INVARIANT ReceivedHasData
CHECK_DEADLOCK FALSE
