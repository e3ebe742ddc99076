SPECIFICATION Spec
CONSTANTS
    SIZE = 4
    SYNC_LEN = 1
    MSG_LEN = 2
    MASTER_PROGRAMS = 2
    CHUNK = 2
    LIMIT = 4
    Lengths <- MCLengths
    MaxFaults = 1
    MaxInputs = 3
INVARIANTS
    PressesInOrder
    TransferExact
PROPERTIES
    OnePressPerRelease
    PressAnswered
