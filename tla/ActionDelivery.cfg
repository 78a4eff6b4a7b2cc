SPECIFICATION FairSpec
CONSTANTS
    MaxTicks = 3
    MaxSnapshot = 3
    MaxLease = 3
INVARIANTS
    AtMostOneInput
    LandsOnItsDecision
    NoRequestOutlivesItsTick
PROPERTIES
    ImplementsInputOnce
    RunEnds
CHECK_DEADLOCK FALSE
