SPECIFICATION Spec
CONSTANTS
    MIN = 1
    MIDDLE = 5
    MAX = 8
    Top <- MCTop
    HALF = 20
    NEAR = 4
    COST = 3
    GAP = 20
    Colors <- MCColors
    MaxChanges = 2
INVARIANTS
    RingKeepsUp
    ShowsColor
PROPERTIES
    PeriodShowsFrame
    ColorIsShown
