SPECIFICATION BrowserSpec
CONSTANTS
    Slot = {r1, r2}
    User = {u1}
    Tab = {w1, w2}
    MaxTokens = 2
    MaxLinks = 1
    Faults = TRUE
    Lossy = TRUE
SYMMETRY Symmetry
CHECK_DEADLOCK FALSE
INVARIANTS
    FalseAlarmNeedsRace
