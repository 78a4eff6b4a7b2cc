SPECIFICATION Spec
CONSTANTS
    Snapshots <- MCSnapshots
    Actions <- MCActions
    MaxTicks = 4
    StartupLimit = 4
    SettlingLimit = 3
    RestLimit = 2
CHECK_DEADLOCK FALSE
INVARIANTS
    NoEntryAfterEnd
    StallIsJust
    ExactRepeatStops
    FailureIsLoud
