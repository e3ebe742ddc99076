SPECIFICATION Spec
CONSTANTS
    N = 2
    BYTE = 16
    SYNC_LEN = 3
    MSG_LEN = 3
    ESC = 5
    BROADCAST = 15
    FIRST = 0
    Commands <- MCCommands
    Packets <- MCPackets
    Jumpered <- MCMaster
    START <- MCStart
    MaxSends = 3
    MaxBursts = 1
    MaxRestarts = 1
    MaxEvents = 4
INVARIANTS
    AddressIsPosition
    PacketsInOrder
    PacketsDelivered
PROPERTY SyncCompletes
\* A bus on which nobody sends any more is at rest.
CHECK_DEADLOCK FALSE
