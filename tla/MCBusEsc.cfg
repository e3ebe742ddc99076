SPECIFICATION Spec
CONSTANTS
    N = 2
    BYTE = 16
    SYNC_LEN = 3
    MSG_LEN = 3
    ESC = 5
    BROADCAST = 15
    FIRST = 0
    Commands <- MCCommands
    Packets <- MCPackets
    Jumpered <- MCNone
    START <- MCStart
    MaxSends = 2
    MaxBursts = 0
    MaxRestarts = 0
    MaxEvents = 4
INVARIANT SyncDetectedAnywhere
\* A bus on which nobody sends any more is at rest.
CHECK_DEADLOCK FALSE
