SPECIFICATION Spec
CONSTANTS
    ADDRESS = 2
    SECOND = 1
    Programs <- MCNoSettings
    Startup = FALSE
    Slots <- MCSlots
    RandomHues <- MCRandomHues
    RgbFades <- MCUnequalFades
    HsvFades <- MCUndelayedFades
    Changes <- MCNoSettings
    OffsetSettings <- MCNoSettings
    MaxCommands = 1
PROPERTY FadeEnds
