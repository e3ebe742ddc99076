SPECIFICATION Spec
CONSTANTS
    ADDRESS = 2
    SECOND = 1
    Programs <- MCPrograms
    Startup = TRUE
    Slots <- MCSlots
    RandomHues <- MCRandomHues
    RgbFades <- MCRgbFades
    HsvFades <- MCHsvFades
    Changes <- MCChanges
    OffsetSettings <- MCOffsets
    MaxCommands = 2
INVARIANTS
    WheelKeepsStep
    ReplayInRange
PROPERTIES
    MovesTowardsTarget
    StopHolds
    ChannelsArrive
    LoopReturns
