SPECIFICATION Spec
CONSTANTS
    magic = magic
    zero = zero
    x = x
    Byte <- MCByte
    MAGIC = magic
    ZERO = zero
    Params <- MCParams
    Slots <- MCSlots
    Colors <- MCColors
    CFG_LEN = 3
    SLOT_LEN = 2
    COLORS = 1
    BUF_SIZE = 3
    COUNTER = 3
    Delays = {0, 1, 2}
    DELAY_UNIT = 1
    DELAY_LIMIT = 1
    DELAY_MAX = 2
    NoSum = NoSum
    NoWrite = NoWrite
    Default = Default
    MaxCommands = 2
    MaxRestarts = 0
INVARIANT LineReleasedAfterSave
