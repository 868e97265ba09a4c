SPECIFICATION Spec
CONSTANTS
    Slot = {r1, r2}
    Faults = TRUE
    Seeker = {u1, u2}
    Home = {h1, h2}
    Relay = {n1, n2}
    Capacity = 1
    MaxThreads = 4
    MaxShowings = 2
    MaxTimes = 2
    MaxAsked = 3
    MaxPapers = 2
    LimitKey = {k1, k2}
    Limit = 2
    Number = {p1, p2}
    MaxAttempts = 1
    MaxCodes = 2
    MaxCheckouts = 3
    Account = {a1, a2}
    Root = {a1}
    MaxChanges = 2
SYMMETRY Symmetry
CHECK_DEADLOCK FALSE
INVARIANTS
    TablesTypeOK
    DuplicateNeedsOverlap
    OverrunNeedsOverlap
    OneTimeSelected
    DownloadsGranted
    AnsweredMeansSent
    WindowsLimitAndEnd
    EveryGuessCounts
    PrimaryNumber
    TierPaidFor
    ModeratorsSpareStaff
