CONSTANTS
    KeyStore = keyStore
    LocalIdentity = localIdentity
    AddressBook = addressBook
    Discovery = discovery
    Comms = comms
    Always = always
    OnDemand = onDemand
    Services <- NodeServices
    Registered <- NodeRegistered
    Depends <- NodeDepends
    Levels <- NodeLevels
    Members <- NodeMembers
    Slots = {call1}
    CanFail = {}
    Silent = {}
SPECIFICATION Spec
INVARIANT UnneededStops
